---- MODULE Spec2Model ----
(***************************************************************************)
(* Model of the usage analysis engine of claude-monitor (Rust workspace).  *)
(*                                                                         *)
(*   monitor-data/src/analyzer.rs   SessionAnalyzer: session windows       *)
(*   monitor-data/src/analysis.rs   analyze_usage: limits attached         *)
(*   monitor-data/src/reader.rs     load_usage_entries: JSONL loader       *)
(*   monitor-runtime/src/data_manager.rs     DataManager: TTL cache        *)
(*   monitor-runtime/src/session_monitor.rs  SessionMonitor                *)
(*   monitor-runtime/src/orchestrator.rs     the monitoring loop           *)
(*                                                                         *)
(* Time is counted in ticks, TicksPerHour ticks to the hour, from the      *)
(* start of some hour (every operation of the segmenter commutes with a    *)
(* shift by whole hours).  Option<T> is a sequence of length at most one:  *)
(* <<>> is None and <<x>> is Some(x).  Strings that the code inspects      *)
(* (model names) are sequences of one-character strings.  cost_usd (f64)   *)
(* is counted in millionths of a dollar.                                   *)
(***************************************************************************)
EXTENDS Integers, Sequences, FiniteSets, TLC

VARIABLES
    entries,        \* transform_to_blocks: the slice of UsageEntry consumed so far
    blocks,         \* transform_to_blocks: `blocks`, later the returned Vec
    current_block,  \* transform_to_blocks: `current_block` (Option<SessionBlock>)
    now,            \* mark_active_blocks: the Utc::now() it sampled (Option)
    pc,             \* position of the run
    detections,     \* assign_limits_to_blocks: the detections it was given
    files,          \* load_usage_entries: the files read so far, each with the lines read
    cutoff_time,    \* load_usage_entries: `cutoff_time` (Option)
    include_raw,    \* load_usage_entries: `include_raw`
    processed_hashes, \* load_usage_entries: `processed_hashes`
    all_entries,    \* load_usage_entries: `all_entries`
    raw_entries,    \* load_usage_entries: `raw_entries` (Option<Vec<Value>>)
    file_entries,   \* process_single_file: `entries`
    file_raw,       \* process_single_file: `raw_data` (Option<Vec<Value>>)
    data_manager,   \* monitoring_loop: `data_manager` (DataManager)
    instant,        \* the monotonic clock behind Instant::now()
    fetch_count,    \* how many times fetch_fresh has run the analysis
    last_good,      \* the Ok value fetch_fresh returned last (Option)
    invalidated,    \* invalidate_cache was called since fetch_fresh last returned Ok
    last_call,      \* the latest operation on the manager, with the state it found
    session_monitor, \* monitoring_loop: `session_monitor` (SessionMonitor)
    last_update,    \* the latest SessionMonitor::update: its data, the state it found, what it returned
    observed,       \* the ids of the active blocks that valid updates were shown
    loop_pc,        \* monitoring_loop: the await the task stands at
    pending,        \* fetch_and_send: the snapshot handed to tx.send (Option)
    rx,             \* the Receiver returned by start: "open" or "dropped"
    buffered,       \* the number of snapshots in the channel's buffer
    states,         \* NotificationManager: `states` (key -> NotificationState)
    notification_file, \* the states last written to notification_states.json (Option)
    utc_now,        \* the wall clock behind Utc::now(), in half seconds
    asked,          \* the latest should_notify: its key, cooldown, time and answer (Option)
    call_args,      \* the arguments of the function call under study (Option)
    call_result     \* what that call returned (Option)

segVars == <<entries, blocks, current_block, now, detections>>

loadVars == <<files, cutoff_time, include_raw, processed_hashes, all_entries, raw_entries, file_entries, file_raw>>

dmVars == <<data_manager, instant, fetch_count, last_good, invalidated, last_call>>

smVars == <<session_monitor, last_update, observed>>

orchVars == <<loop_pc, pending, rx, buffered>>

rtVars == <<dmVars, smVars, orchVars>>

nmVars == <<states, notification_file, utc_now, asked>>

fnVars == <<call_args, call_result>>

auxVars == <<nmVars, fnVars>>

vars == <<segVars, loadVars, rtVars, auxVars, pc>>

----------------------------------------------------------------------------
(* Bounds of the model.                                                    *)

TicksPerHour == 2
MaxTime == 21
MaxEntries == 3

(* Program constants.                                                      *)

session_duration_hours == 5

----------------------------------------------------------------------------
(* Helpers for Option and Vec.                                             *)

None == <<>>
Some(x) == <<x>>
Last(s) == s[Len(s)]

(* String helpers: str::contains and str::to_lowercase over sequences of   *)
(* characters.  Only the upper-case letters the sample names use are       *)
(* listed; every other character is its own lower case.                    *)

lower_char(c) == CASE c = "C" -> "c" [] c = "O" -> "o" [] c = "S" -> "s" [] c = "H" -> "h" [] OTHER -> c

to_lowercase(s) == [i \in 1..Len(s) |-> lower_char(s[i])]

contains(s, sub) == \E i \in 1..(Len(s) - Len(sub) + 1) : SubSeq(s, i, i + Len(sub) - 1) = sub

----------------------------------------------------------------------------
(* monitor-core/src/models.rs: normalize_model_name.                       *)

s_opus == <<"o", "p", "u", "s">>
s_sonnet == <<"s", "o", "n", "n", "e", "t">>
s_haiku == <<"h", "a", "i", "k", "u">>
s_claude_dash == <<"c", "l", "a", "u", "d", "e", "-">>
s_dash4dash == <<"-", "4", "-">>
s_4dash == <<"4", "-">>
s_3dot5 == <<"3", ".", "5">>
s_3dash5 == <<"3", "-", "5">>
s_claude_3 == <<"c", "l", "a", "u", "d", "e", "-", "3", "-">>
s_claude_3_5 == s_claude_3 \o <<"5", "-">>
s_unknown == <<"u", "n", "k", "n", "o", "w", "n">>

is_claude4(lower) ==
    \/ contains(lower, s_claude_dash \o s_opus \o s_dash4dash)
    \/ contains(lower, s_claude_dash \o s_sonnet \o s_dash4dash)
    \/ contains(lower, s_claude_dash \o s_haiku \o s_dash4dash)
    \/ contains(lower, s_sonnet \o s_dash4dash)
    \/ contains(lower, s_opus \o s_dash4dash)
    \/ contains(lower, s_haiku \o s_dash4dash)

normalize_model_name(model) ==
    LET lower == to_lowercase(model)
        v35 == contains(lower, s_3dot5) \/ contains(lower, s_3dash5)
    IN  IF model = <<>> THEN <<>>
        ELSE IF is_claude4(lower) THEN lower
        ELSE IF contains(lower, s_opus)
             THEN (IF contains(lower, s_4dash) THEN lower ELSE s_claude_3 \o s_opus)
        ELSE IF contains(lower, s_sonnet)
             THEN (IF contains(lower, s_4dash) THEN lower
                   ELSE IF v35 THEN s_claude_3_5 \o s_sonnet
                   ELSE s_claude_3 \o s_sonnet)
        ELSE IF contains(lower, s_haiku)
             THEN (IF v35 THEN s_claude_3_5 \o s_haiku ELSE s_claude_3 \o s_haiku)
        ELSE model

----------------------------------------------------------------------------
(* monitor-data/src/analyzer.rs: SessionAnalyzer.                          *)

session_delta == session_duration_hours * TicksPerHour

round_to_hour(ts) == ts - (ts % TicksPerHour)

TokenCounts_default == [input_tokens |-> 0, output_tokens |-> 0, cache_creation_tokens |-> 0, cache_read_tokens |-> 0]

ModelStats_default == [input_tokens |-> 0, output_tokens |-> 0, cache_creation_tokens |-> 0, cache_read_tokens |-> 0, cost_usd |-> 0, entries_count |-> 0]

(* Fault variant: a block takes no record three hours after its start.     *)
should_create_new_block_after_three_hours(block, entry) == entry.timestamp >= block.start_time + 3 * TicksPerHour

(* Fault variant: a record at the nominal end itself is still taken.       *)
should_create_new_block_past_end(block, entry) ==
    IF entry.timestamp > block.end_time THEN TRUE
    ELSE IF Len(block.entries) > 0 /\ entry.timestamp - Last(block.entries).timestamp >= session_delta THEN TRUE
    ELSE FALSE

should_create_new_block(block, entry) ==
    IF entry.timestamp >= block.end_time THEN TRUE
    ELSE IF Len(block.entries) > 0 /\ entry.timestamp - Last(block.entries).timestamp >= session_delta THEN TRUE
    ELSE FALSE

new_block(start_time, end_time) ==
    [ id |-> <<"", start_time>>,
      start_time |-> start_time,
      end_time |-> end_time,
      entries |-> <<>>,
      token_counts |-> TokenCounts_default,
      is_active |-> FALSE,
      is_gap |-> FALSE,
      burn_rate |-> None,
      actual_end_time |-> None,
      per_model_stats |-> <<>>,
      models |-> <<>>,
      sent_messages_count |-> 0,
      cost_usd |-> 0,
      limit_messages |-> <<>>,
      projection_data |-> None,
      burn_rate_snapshot |-> None ]

(* Fault variant: the block starts at the record, not at its hour.         *)
create_new_block_at_entry(entry, delta) == new_block(entry.timestamp, entry.timestamp + delta)

(* Fault variant: the nominal end counted from the record, not the hour.   *)
create_new_block_end_from_entry(entry, delta) == new_block(round_to_hour(entry.timestamp), entry.timestamp + delta)

(* Fault variant: the window starts an hour before the hour of the record. *)
create_new_block_an_hour_early(entry, delta) ==
    LET start_time == round_to_hour(entry.timestamp) - TicksPerHour
    IN  new_block(start_time, start_time + delta)

create_new_block(entry, delta) ==
    LET start_time == round_to_hour(entry.timestamp)
    IN  new_block(start_time, start_time + delta)

(* per_model_stats is a HashMap<String, ModelStats>: a function whose      *)
(* domain is the set of model names seen (<<>> is the empty function).     *)
stats_entry_or_default(stats, model) == IF model \in DOMAIN stats THEN stats[model] ELSE ModelStats_default

(* Fault variant: the insert forgets the other models.                     *)
stats_insert_alone(stats, model, v) == [m \in {model} |-> v]

stats_insert(stats, model, v) == [m \in (DOMAIN stats) \cup {model} |-> IF m = model THEN v ELSE stats[m]]

add_entry_to_block(block, entry) ==
    LET raw_model == IF entry.model = <<>> THEN s_unknown ELSE entry.model
        model == IF raw_model = s_unknown THEN s_unknown ELSE normalize_model_name(raw_model)
        old == stats_entry_or_default(block.per_model_stats, model)
        new == [ input_tokens |-> old.input_tokens + entry.input_tokens,
                 output_tokens |-> old.output_tokens + entry.output_tokens,
                 cache_creation_tokens |-> old.cache_creation_tokens + entry.cache_creation_tokens,
                 cache_read_tokens |-> old.cache_read_tokens + entry.cache_read_tokens,
                 cost_usd |-> old.cost_usd + entry.cost_usd,
                 entries_count |-> old.entries_count + 1 ]
        tc == block.token_counts
    IN  [ block EXCEPT
            !.entries = Append(@, entry),
            !.per_model_stats = stats_insert(@, model, new),
            !.token_counts = [ input_tokens |-> tc.input_tokens + entry.input_tokens,
                               output_tokens |-> tc.output_tokens + entry.output_tokens,
                               cache_creation_tokens |-> tc.cache_creation_tokens + entry.cache_creation_tokens,
                               cache_read_tokens |-> tc.cache_read_tokens + entry.cache_read_tokens ],
            !.cost_usd = @ + entry.cost_usd,
            !.models = IF \E i \in 1..Len(@) : @[i] = model THEN @ ELSE Append(@, model),
            !.sent_messages_count = @ + 1 ]

finalize_block(block) ==
    [ block EXCEPT
        !.actual_end_time = IF Len(block.entries) > 0 THEN Some(Last(block.entries).timestamp) ELSE @,
        !.sent_messages_count = Len(block.entries) ]

gap_block(actual_end, next_timestamp) ==
    [ id |-> <<"gap-", actual_end>>,
      start_time |-> actual_end,
      end_time |-> next_timestamp,
      entries |-> <<>>,
      token_counts |-> TokenCounts_default,
      is_active |-> FALSE,
      is_gap |-> TRUE,
      burn_rate |-> None,
      actual_end_time |-> None,
      per_model_stats |-> <<>>,
      models |-> <<>>,
      sent_messages_count |-> 0,
      cost_usd |-> 0,
      limit_messages |-> <<>>,
      projection_data |-> None,
      burn_rate_snapshot |-> None ]

(* Fault variant: a silence of exactly the session width is no gap.        *)
check_for_gap_strict(last_block, next_entry, delta) ==
    IF last_block.actual_end_time = None THEN None
    ELSE IF next_entry.timestamp - last_block.actual_end_time[1] <= delta THEN None
    ELSE Some(gap_block(last_block.actual_end_time[1], next_entry.timestamp))

(* Fault variant: the gap starts at the nominal end of the closed block.   *)
check_for_gap_from_nominal_end(last_block, next_entry, delta) ==
    IF last_block.actual_end_time = None THEN None
    ELSE IF next_entry.timestamp - last_block.actual_end_time[1] < delta THEN None
    ELSE Some(gap_block(last_block.end_time, next_entry.timestamp))

check_for_gap(last_block, next_entry, delta) ==
    IF last_block.actual_end_time = None THEN None
    ELSE LET actual_end == last_block.actual_end_time[1]
             gap == next_entry.timestamp - actual_end
         IN  IF gap < delta THEN None
             ELSE Some(gap_block(actual_end, next_entry.timestamp))

(* Fault variant: a block whose nominal end is `now` still counts active.  *)
mark_active_blocks_inclusive(bs, t) ==
    [i \in 1..Len(bs) |-> IF ~bs[i].is_gap /\ bs[i].end_time >= t THEN [bs[i] EXCEPT !.is_active = TRUE] ELSE bs[i]]

(* Fault variant: a block is active once it has started.                   *)
mark_active_blocks_started(bs, t) ==
    [i \in 1..Len(bs) |-> IF ~bs[i].is_gap /\ bs[i].start_time <= t THEN [bs[i] EXCEPT !.is_active = TRUE] ELSE bs[i]]

mark_active_blocks(bs, t) ==
    [i \in 1..Len(bs) |-> IF ~bs[i].is_gap /\ bs[i].end_time > t THEN [bs[i] EXCEPT !.is_active = TRUE] ELSE bs[i]]

(* One iteration of the `for entry in entries` loop of transform_to_blocks *)
(* on the pair (blocks, current_block).                                    *)
push_closed_block(bs, cur, entry) ==
    IF cur = None THEN bs
    ELSE LET block == finalize_block(cur[1])
         IN  bs \o check_for_gap(block, entry, session_delta) \o <<block>>

transform_loop_body(bs, cur, entry) ==
    LET need_new == IF cur = None THEN TRUE ELSE should_create_new_block(cur[1], entry)
        bs2 == IF need_new THEN push_closed_block(bs, cur, entry) ELSE bs
        cur2 == IF need_new THEN create_new_block(entry, session_delta) ELSE cur[1]
    IN  [blocks |-> bs2, current_block |-> Some(add_entry_to_block(cur2, entry))]

(* Fault variant: the last block is pushed without being finalized.        *)
push_last_block_unfinalized(bs, cur) == bs \o cur

(* Fault variant: the block still open after the loop is not pushed.       *)
push_last_block_dropped(bs, cur) == bs

(* After the loop: the last block is finalized and pushed.                 *)
push_last_block(bs, cur) == IF cur = None THEN bs ELSE Append(bs, finalize_block(cur[1]))

(* transform_to_blocks as a function of the whole slice and of the instant *)
(* mark_active_blocks samples: the loop folded over the entries.           *)
RECURSIVE transform_loop(_, _, _)
transform_loop(bs, cur, es) ==
    IF es = <<>> THEN [blocks |-> bs, current_block |-> cur]
    ELSE LET r == transform_loop_body(bs, cur, Head(es))
         IN  transform_loop(r.blocks, r.current_block, Tail(es))

transform_to_blocks(es, t) ==
    IF es = <<>> THEN <<>>
    ELSE LET r == transform_loop(<<>>, None, es)
         IN  mark_active_blocks(push_last_block(r.blocks, r.current_block), t)

----------------------------------------------------------------------------
(* monitor-data/src/analysis.rs: assign_limits_to_blocks.                  *)

(* DateTime::to_rfc3339: the text of an instant; distinct instants have    *)
(* distinct texts.                                                         *)
to_rfc3339(t) == <<"rfc3339", t>>

LimitMessage_of(detection) ==
    [ limit_type |-> detection.limit_type,
      timestamp |-> to_rfc3339(detection.timestamp),
      content |-> detection.content,
      reset_time |-> IF detection.reset_time = None THEN None ELSE Some(to_rfc3339(detection.reset_time[1])) ]

(* Fault variant: the nominal end is excluded from the window.             *)
assign_limit_to_block_exclusive_end(block, detection) ==
    IF block.is_gap THEN block
    ELSE IF block.start_time <= detection.timestamp /\ detection.timestamp < block.end_time
         THEN [block EXCEPT !.limit_messages = Append(@, LimitMessage_of(detection))]
    ELSE block

(* Fault variant: gap blocks take limit messages too.                      *)
assign_limit_to_block_gaps_too(block, detection) ==
    IF block.start_time <= detection.timestamp /\ detection.timestamp <= block.end_time
    THEN [block EXCEPT !.limit_messages = Append(@, LimitMessage_of(detection))]
    ELSE block

assign_limit_to_block(block, detection) ==
    IF block.is_gap THEN block
    ELSE IF block.start_time <= detection.timestamp /\ detection.timestamp <= block.end_time
         THEN [block EXCEPT !.limit_messages = Append(@, LimitMessage_of(detection))]
    ELSE block

RECURSIVE assign_limits_to_blocks(_, _)
assign_limits_to_blocks(bs, ds) ==
    IF ds = <<>> THEN bs
    ELSE assign_limits_to_blocks([i \in 1..Len(bs) |-> assign_limit_to_block(bs[i], Head(ds))], Tail(ds))

----------------------------------------------------------------------------
(* The sorted record stream given to transform_to_blocks.  A record is a   *)
(* UsageEntry; the loader keeps only records with a nonzero input or       *)
(* output count and hands them over sorted by timestamp.  The records of a *)
(* stream take the two shapes in turn (a named model, no model).           *)

EntryShapes ==
    { [model |-> <<"O", "p", "u", "s">>, input_tokens |-> 1, output_tokens |-> 0, cache_creation_tokens |-> 0, cache_read_tokens |-> 2, cost_usd |-> 3],
      [model |-> <<>>, input_tokens |-> 0, output_tokens |-> 2, cache_creation_tokens |-> 1, cache_read_tokens |-> 0, cost_usd |-> 1] }

(* The k-th record of a stream: the shapes alternate.                      *)
EntryShapeOf(k) == CHOOSE sh \in EntryShapes : (k % 2 = 1) <=> (sh.model # <<>>)

MakeEntry(ts, sh, k) ==
    [ timestamp |-> ts,
      input_tokens |-> sh.input_tokens,
      output_tokens |-> sh.output_tokens,
      cache_creation_tokens |-> sh.cache_creation_tokens,
      cache_read_tokens |-> sh.cache_read_tokens,
      cost_usd |-> sh.cost_usd,
      model |-> sh.model,
      message_id |-> <<"msg", k>>,
      request_id |-> <<"req", k>> ]

(* The first record falls in the hour that starts at tick 0; every later   *)
(* record is at or after the one before it.                                *)
NextTimes(es) == IF es = <<>> THEN 0..(TicksPerHour - 1) ELSE Last(es).timestamp..MaxTime

NowRange == 0..(MaxTime + session_delta)

----------------------------------------------------------------------------
(* monitor-runtime/src/data_manager.rs: DataManager, the TTL cache with    *)
(* retries in front of analyze_usage.  An Instant is a number of ticks of  *)
(* the monotonic clock; cache_ttl is a number of ticks.  One run of the    *)
(* analysis either fails (an Err or a caught panic) or yields an           *)
(* AnalysisResult, which the model tells apart by the number of the run    *)
(* that produced it, and which carries the blocks the session monitor is   *)
(* shown.                                                                  *)

MAX_RETRY_ATTEMPTS == 3

Ok(v) == [ok |-> TRUE, v |-> v]

Err(e) == [ok |-> FALSE, v |-> e]

DataManager_new(cache_ttl_secs) ==
    [cache_ttl |-> cache_ttl_secs,
     cache |-> None,
     cache_timestamp |-> None,
     last_error |-> None,
     last_successful_fetch |-> None]

(* `ts.elapsed() <= self.cache_ttl`: a cache as old as the TTL still used. *)
is_cache_valid_at_ttl(self, t) ==
    IF self.cache # None /\ self.cache_timestamp # None
    THEN t - self.cache_timestamp[1] <= self.cache_ttl
    ELSE FALSE

is_cache_valid(self, t) ==
    IF self.cache # None /\ self.cache_timestamp # None
    THEN t - self.cache_timestamp[1] < self.cache_ttl
    ELSE FALSE

(* Run number n of the analysis, with the outcome the environment gives    *)
(* it: [ok |-> FALSE] or [ok |-> TRUE, blocks |-> ...].                    *)
fetch_fresh(n, outcome) ==
    IF outcome.ok
    THEN Ok([run |-> n, blocks |-> outcome.blocks])
    ELSE Err(<<"analysis failed", n>>)

(* The loop of fetch_with_retry from `attempt` on; n runs came before the  *)
(* call.  `runs` is how many times the loop ran fetch_fresh.               *)
RECURSIVE fetch_with_retry_from(_, _, _, _)
fetch_with_retry_from(attempt, outcomes, n, last_err) ==
    IF attempt >= MAX_RETRY_ATTEMPTS
    THEN [res |-> Err(last_err), runs |-> attempt]
    ELSE LET r == fetch_fresh(n + attempt + 1, outcomes[attempt + 1])
         IN  IF r.ok
             THEN [res |-> r, runs |-> attempt + 1]
             ELSE fetch_with_retry_from(attempt + 1, outcomes, n, r.v)

fetch_with_retry(outcomes, n) == fetch_with_retry_from(0, outcomes, n, "")

(* get_data, which never falls back: a failed refresh returns None.        *)
get_data_without_fallback(self, force_refresh, t, outcomes, n, d) ==
    IF ~force_refresh /\ is_cache_valid(self, t)
    THEN [self |-> self, result |-> self.cache, runs |-> 0]
    ELSE LET f == fetch_with_retry(outcomes, n)
         IN  IF f.res.ok
             THEN [self |-> [self EXCEPT !.cache = Some(f.res.v),
                                         !.cache_timestamp = Some(t + d),
                                         !.last_successful_fetch = Some(t + d),
                                         !.last_error = None],
                   result |-> Some(f.res.v),
                   runs |-> f.runs]
             ELSE [self |-> [self EXCEPT !.last_error = Some(f.res.v)],
                   result |-> None,
                   runs |-> f.runs]

(* get_data called at instant t; the call takes d ticks, so the            *)
(* Instant::now() of the Ok arm is t + d.                                  *)
(* get_data, which on a successful refresh stores the new result but      *)
(* hands out the one the cache held before.                                *)
get_data_returning_previous(self, force_refresh, t, outcomes, n, d) ==
    IF ~force_refresh /\ is_cache_valid(self, t)
    THEN [self |-> self, result |-> self.cache, runs |-> 0]
    ELSE LET f == fetch_with_retry(outcomes, n)
         IN  IF f.res.ok
             THEN [self |-> [self EXCEPT !.cache = Some(f.res.v),
                                         !.cache_timestamp = Some(t + d),
                                         !.last_successful_fetch = Some(t + d),
                                         !.last_error = None],
                   result |-> IF self.cache = None THEN Some(f.res.v) ELSE self.cache,
                   runs |-> f.runs]
             ELSE [self |-> [self EXCEPT !.last_error = Some(f.res.v)],
                   result |-> self.cache,
                   runs |-> f.runs]

get_data(self, force_refresh, t, outcomes, n, d) ==
    IF ~force_refresh /\ is_cache_valid(self, t)
    THEN [self |-> self, result |-> self.cache, runs |-> 0]
    ELSE LET f == fetch_with_retry(outcomes, n)
         IN  IF f.res.ok
             THEN [self |-> [self EXCEPT !.cache = Some(f.res.v),
                                         !.cache_timestamp = Some(t + d),
                                         !.last_successful_fetch = Some(t + d),
                                         !.last_error = None],
                   result |-> Some(f.res.v),
                   runs |-> f.runs]
             ELSE [self |-> [self EXCEPT !.last_error = Some(f.res.v)],
                   result |-> self.cache,
                   runs |-> f.runs]

invalidate_cache(self) == [self EXCEPT !.cache = None, !.cache_timestamp = None]

(* What an operation on the manager found and did.                         *)
CallRecord(op, force_refresh, self, t, good, r) ==
    [op |-> op,
     force_refresh |-> force_refresh,
     before |-> self,
     at |-> t,
     good_before |-> good,
     runs |-> r.runs,
     result |-> r.result]

NoCall == CallRecord("none", FALSE, DataManager_new(0), 0, None, [runs |-> 0, result |-> None])

(* The runtime's variables when no manager is modelled.                    *)
DataManagerIdle ==
    /\ data_manager = DataManager_new(0)
    /\ instant = 0
    /\ fetch_count = 0
    /\ last_good = None
    /\ invalidated = FALSE
    /\ last_call = NoCall

(* monitor-runtime/src/session_monitor.rs: SessionMonitor::new.            *)
SessionMonitor_new == [current_session_id |-> None, session_history |-> <<>>]

UpdateRecord(data, self, r) == [called |-> TRUE, data |-> data, before |-> self, is_valid |-> r.is_valid, errors |-> r.errors]

NoUpdate == [called |-> FALSE, data |-> [t |-> "null"], before |-> SessionMonitor_new, is_valid |-> FALSE, errors |-> <<>>]

SessionMonitorIdle ==
    /\ session_monitor = SessionMonitor_new
    /\ last_update = NoUpdate
    /\ observed = {}

(* The orchestrator's variables when no monitoring loop is modelled.       *)
OrchestratorIdle ==
    /\ loop_pc = "none"
    /\ pending = None
    /\ rx = "open"
    /\ buffered = 0

(* The notification manager's variables when no manager is modelled.       *)
NotificationManagerIdle ==
    /\ states = <<>>
    /\ notification_file = None
    /\ utc_now = 0
    /\ asked = None

(* The variables of a single function call when none is modelled.          *)
CallIdle ==
    /\ call_args = None
    /\ call_result = None

AuxIdle == NotificationManagerIdle /\ CallIdle

RuntimeIdle == DataManagerIdle /\ SessionMonitorIdle /\ OrchestratorIdle /\ AuxIdle

----------------------------------------------------------------------------
(* transform_to_blocks as a state machine: one step per loop iteration,    *)
(* one step for what follows the loop.                                     *)

(* The loader's variables when no load is modelled.                        *)
LoaderIdle ==
    /\ files = <<>>
    /\ cutoff_time = None
    /\ include_raw = FALSE
    /\ processed_hashes = {}
    /\ all_entries = <<>>
    /\ raw_entries = None
    /\ file_entries = <<>>
    /\ file_raw = None

Init ==
    /\ entries = <<>>
    /\ blocks = <<>>
    /\ current_block = None
    /\ now = None
    /\ pc = "loop"
    /\ detections = <<>>
    /\ LoaderIdle
    /\ RuntimeIdle

ProcessEntry ==
    /\ pc = "loop"
    /\ Len(entries) < MaxEntries
    /\ \E ts \in NextTimes(entries) :
          LET entry == MakeEntry(ts, EntryShapeOf(Len(entries) + 1), Len(entries) + 1)
              r == transform_loop_body(blocks, current_block, entry)
          IN  /\ entries' = Append(entries, entry)
              /\ blocks' = r.blocks
              /\ current_block' = r.current_block
    /\ UNCHANGED <<now, pc, detections, loadVars, rtVars, auxVars>>

ReturnEmpty ==
    /\ pc = "loop"
    /\ entries = <<>>
    /\ pc' = "done"
    /\ UNCHANGED <<entries, blocks, current_block, now, detections, loadVars, rtVars, auxVars>>

FinishTransform ==
    /\ pc = "loop"
    /\ entries # <<>>
    /\ \E t \in NowRange :
          /\ blocks' = mark_active_blocks(push_last_block(blocks, current_block), t)
          /\ now' = Some(t)
    /\ current_block' = None
    /\ pc' = "done"
    /\ UNCHANGED <<entries, detections, loadVars, rtVars, auxVars>>

Next == ProcessEntry \/ ReturnEmpty \/ FinishTransform

Spec == Init /\ [][Next]_vars

----------------------------------------------------------------------------
(* analyze_usage, steps 2 and 4: the blocks are built from the loaded      *)
(* records, then the detected limits are attached.  The record streams are *)
(* the sorted streams; the instant mark_active_blocks samples is before    *)
(* every record or after every window.                                     *)

MaxLimitEntries == 3
MaxDetections == 1

SortedTimes(n) == {s \in [1..n -> 0..MaxTime] : s[1] < TicksPerHour /\ \A i \in 1..(n - 1) : s[i] <= s[i + 1]}

SampleStreams ==
    {<<>>} \cup UNION {{[i \in 1..n |-> MakeEntry(s[i], EntryShapeOf(i), i)] : s \in SortedTimes(n)} : n \in 1..MaxLimitEntries}

LimitNowSamples == {0, MaxTime + session_delta}

(* The detections detect_limits hands over: system limits, told apart by   *)
(* their content.                                                          *)
MakeDetection(ts, k) == [limit_type |-> "system_limit", timestamp |-> ts, content |-> <<"limit", k>>, reset_time |-> None]

SampleDetections == UNION {{[i \in 1..n |-> MakeDetection(s[i], i)] : s \in [1..n -> NowRange]} : n \in 0..MaxDetections}

InitLimits ==
    /\ entries = <<>>
    /\ blocks = <<>>
    /\ current_block = None
    /\ now = None
    /\ pc = "start"
    /\ detections = <<>>
    /\ LoaderIdle
    /\ RuntimeIdle

BuildBlocks ==
    /\ pc = "start"
    /\ \E es \in SampleStreams, t \in LimitNowSamples :
          /\ entries' = es
          /\ blocks' = transform_to_blocks(es, t)
          /\ now' = IF es = <<>> THEN None ELSE Some(t)
    /\ pc' = "done"
    /\ UNCHANGED <<current_block, detections, loadVars, rtVars, auxVars>>

AssignLimits ==
    /\ pc = "done"
    /\ \E ds \in SampleDetections :
          /\ detections' = ds
          /\ blocks' = assign_limits_to_blocks(blocks, ds)
    /\ pc' = "limits"
    /\ UNCHANGED <<entries, current_block, now, loadVars, rtVars, auxVars>>

NextLimits == BuildBlocks \/ AssignLimits

SpecLimits == InitLimits /\ [][NextLimits]_vars

----------------------------------------------------------------------------
(* serde_json::Value, as far as the loader looks at it: null, numbers,     *)
(* strings (sequences of characters, or the text of an instant) and        *)
(* objects (functions from key to value).                                  *)

JNull == [t |-> "null"]
JNum(n) == [t |-> "num", n |-> n]
JStr(s) == [t |-> "str", s |-> s]
JObj(o) == [t |-> "obj", o |-> o]

(* Value::get(key): None on a value that is no object or lacks the key.    *)
json_get(data, key) == IF data.t = "obj" /\ key \in DOMAIN data.o THEN Some(data.o[key]) ELSE None

(* Option<&Value>::and_then(|m| m.get(key)).                               *)
and_then_get(opt, key) == IF opt = None THEN None ELSE json_get(opt[1], key)

(* Option<&Value>::and_then(|v| v.as_str()).                               *)
and_then_as_str(opt) == IF opt # None /\ opt[1].t = "str" THEN Some(opt[1].s) ELSE None

(* Option<&Value>::and_then(|v| v.as_u64()).                               *)
and_then_as_u64(opt) == IF opt # None /\ opt[1].t = "num" /\ opt[1].n >= 0 THEN Some(opt[1].n) ELSE None

(* Option::or_else.                                                        *)
or_else(opt, alt) == IF opt # None THEN opt ELSE alt

----------------------------------------------------------------------------
(* monitor-core/src/data_processors.rs.                                    *)

(* A string parses to an instant exactly when it is the text of one.       *)
parse_str(s) ==
    IF s = <<>> THEN None
    ELSE IF Len(s) = 2 /\ s[1] = "rfc3339" THEN Some(s[2])
    ELSE None

TimestampProcessor_parse(value) ==
    CASE value.t = "null" -> None
      [] value.t = "str" -> parse_str(value.s)
      [] value.t = "num" -> Some(value.n)
      [] OTHER -> None

RECURSIVE find_u64(_, _)
find_u64(obj, keys) ==
    IF keys = <<>> THEN 0
    ELSE LET v == and_then_as_u64(json_get(obj, Head(keys)))
         IN  IF v # None THEN v[1] ELSE find_u64(obj, Tail(keys))

ExtractedTokens_default == [input_tokens |-> 0, output_tokens |-> 0, cache_creation_input_tokens |-> 0, cache_read_input_tokens |-> 0, total_tokens |-> 0]

s_assistant == <<"a", "s", "s", "i", "s", "t", "a", "n", "t">>

(* extract_from_sources, were a source with cache counts never skipped.   *)
RECURSIVE extract_from_sources_keeping_cache_only(_)
extract_from_sources_keeping_cache_only(sources) ==
    IF sources = <<>> THEN ExtractedTokens_default
    ELSE IF Head(sources) = None THEN extract_from_sources_keeping_cache_only(Tail(sources))
    ELSE LET source == Head(sources)[1]
             input == find_u64(source, <<"input_tokens", "inputTokens", "prompt_tokens">>)
             output == find_u64(source, <<"output_tokens", "outputTokens", "completion_tokens">>)
             cache_create == find_u64(source, <<"cache_creation_tokens", "cache_creation_input_tokens", "cacheCreationInputTokens">>)
             cache_read == find_u64(source, <<"cache_read_input_tokens", "cache_read_tokens", "cacheReadInputTokens">>)
         IN  IF input > 0 \/ output > 0 \/ cache_create > 0 \/ cache_read > 0
             THEN [ input_tokens |-> input,
                    output_tokens |-> output,
                    cache_creation_input_tokens |-> cache_create,
                    cache_read_input_tokens |-> cache_read,
                    total_tokens |-> input + output + cache_create + cache_read ]
             ELSE extract_from_sources_keeping_cache_only(Tail(sources))

(* The `for source_opt in sources` loop of TokenExtractor::extract.        *)
RECURSIVE extract_from_sources(_)
extract_from_sources(sources) ==
    IF sources = <<>> THEN ExtractedTokens_default
    ELSE IF Head(sources) = None THEN extract_from_sources(Tail(sources))
    ELSE LET source == Head(sources)[1]
             input == find_u64(source, <<"input_tokens", "inputTokens", "prompt_tokens">>)
             output == find_u64(source, <<"output_tokens", "outputTokens", "completion_tokens">>)
             cache_create == find_u64(source, <<"cache_creation_tokens", "cache_creation_input_tokens", "cacheCreationInputTokens">>)
             cache_read == find_u64(source, <<"cache_read_input_tokens", "cache_read_tokens", "cacheReadInputTokens">>)
         IN  IF input > 0 \/ output > 0
             THEN [ input_tokens |-> input,
                    output_tokens |-> output,
                    cache_creation_input_tokens |-> cache_create,
                    cache_read_input_tokens |-> cache_read,
                    total_tokens |-> input + output + cache_create + cache_read ]
             ELSE extract_from_sources(Tail(sources))

(* TokenExtractor::extract, were the type never looked at.                 *)
TokenExtractor_extract_usage_first(data) ==
    extract_from_sources(<<json_get(data, "usage"), and_then_get(json_get(data, "message"), "usage"), Some(data)>>)

TokenExtractor_extract(data) ==
    LET is_assistant == and_then_as_str(json_get(data, "type")) = Some(s_assistant)
        message_usage == and_then_get(json_get(data, "message"), "usage")
        usage == json_get(data, "usage")
    IN  IF is_assistant
        THEN extract_from_sources(<<message_usage, usage, Some(data)>>)
        ELSE extract_from_sources(<<usage, message_usage, Some(data)>>)

extract_model_name(data) ==
    LET top == and_then_as_str(json_get(data, "model"))
        nested == and_then_as_str(and_then_get(json_get(data, "message"), "model"))
    IN  IF top # None /\ top[1] # <<>> THEN top[1]
        ELSE IF nested # None /\ nested[1] # <<>> THEN nested[1]
        ELSE s_claude_3_5 \o s_sonnet

----------------------------------------------------------------------------
(* monitor-core/src/pricing.rs.  Rates are in hundredths of a dollar per   *)
(* million tokens, costs in millionths of a dollar (the resolution         *)
(* calculate_cost rounds to).                                              *)

opus_pricing == [input |-> 1500, output |-> 7500, cache_creation |-> 1875, cache_read |-> 150]

sonnet_pricing == [input |-> 300, output |-> 1500, cache_creation |-> 375, cache_read |-> 30]

haiku_pricing == [input |-> 25, output |-> 125, cache_creation |-> 30, cache_read |-> 3]

s_20250514 == <<"2", "0", "2", "5", "0", "5", "1", "4">>

s_synthetic == <<"<", "s", "y", "n", "t", "h", "e", "t", "i", "c", ">">>

(* HashMap::get on the default pricing map.                                *)
default_pricing_map_get(name) ==
    CASE name = s_claude_3 \o s_opus -> Some(opus_pricing)
      [] name = s_claude_3 \o s_sonnet -> Some(sonnet_pricing)
      [] name = s_claude_3 \o s_haiku -> Some(haiku_pricing)
      [] name = s_claude_3_5 \o s_sonnet -> Some(sonnet_pricing)
      [] name = s_claude_3_5 \o s_haiku -> Some(haiku_pricing)
      [] name = s_claude_dash \o s_sonnet \o s_dash4dash \o s_20250514 -> Some(sonnet_pricing)
      [] name = s_claude_dash \o s_opus \o s_dash4dash \o s_20250514 -> Some(opus_pricing)
      [] OTHER -> None

get_pricing_for_model(model) ==
    LET by_normalised == default_pricing_map_get(normalize_model_name(model))
        by_original == default_pricing_map_get(model)
        lower == to_lowercase(model)
    IN  IF by_normalised # None THEN by_normalised[1]
        ELSE IF by_original # None THEN by_original[1]
        ELSE IF contains(lower, s_opus) THEN opus_pricing
        ELSE IF contains(lower, s_haiku) THEN haiku_pricing
        ELSE IF contains(lower, s_sonnet) THEN sonnet_pricing
        ELSE sonnet_pricing

(* f64::round on a nonnegative count of hundredths.                        *)
round_hundredths(x) == (x + 50) \div 100

calculate_cost(model, input_tokens, output_tokens, cache_creation_tokens, cache_read_tokens) ==
    LET pricing == get_pricing_for_model(model)
    IN  IF model = s_synthetic THEN 0
        ELSE round_hundredths(input_tokens * pricing.input + output_tokens * pricing.output
                              + cache_creation_tokens * pricing.cache_creation
                              + cache_read_tokens * pricing.cache_read)

(* calculate_cost_for_entry on the map map_to_usage_entry builds: the map  *)
(* always has the key "costUSD", so "cost_usd" is never consulted.         *)
calculate_cost_for_entry(model, tokens, costUSD, mode) ==
    IF mode = "Cached" /\ costUSD.t = "num" THEN costUSD.n * 1000000
    ELSE calculate_cost(model, tokens.input_tokens, tokens.output_tokens,
                        tokens.cache_creation_input_tokens, tokens.cache_read_input_tokens)

----------------------------------------------------------------------------
(* monitor-data/src/reader.rs: the JSONL loader.                           *)

(* The message id and the request id of a line, as create_unique_hash and  *)
(* map_to_usage_entry both look them up.                                   *)
lookup_message_id(data) ==
    or_else(and_then_as_str(json_get(data, "message_id")),
            and_then_as_str(and_then_get(json_get(data, "message"), "id")))

lookup_request_id(data) ==
    or_else(and_then_as_str(json_get(data, "requestId")),
            and_then_as_str(json_get(data, "request_id")))

create_unique_hash(data) ==
    LET message_id == lookup_message_id(data)
        request_id == lookup_request_id(data)
    IN  IF message_id # None /\ request_id # None
        THEN Some(message_id[1] \o <<":">> \o request_id[1])
        ELSE None

(* Fault variant: no age filter.                                           *)
should_process_entry_no_cutoff(data, cutoff, hashes) ==
    LET h == create_unique_hash(data)
    IN  ~(h # None /\ h[1] \in hashes)

(* Fault variant: no deduplication filter.                                 *)
should_process_entry_no_dedup(data, cutoff, hashes) ==
    LET ts == IF json_get(data, "timestamp") = None THEN None
              ELSE TimestampProcessor_parse(json_get(data, "timestamp")[1])
    IN  ~(cutoff # None /\ ts # None /\ ts[1] < cutoff[1])

should_process_entry(data, cutoff, hashes) ==
    LET ts_value == json_get(data, "timestamp")
        ts == IF ts_value = None THEN None ELSE TimestampProcessor_parse(ts_value[1])
        h == create_unique_hash(data)
    IN  IF cutoff # None /\ ts # None /\ ts[1] < cutoff[1] THEN FALSE
        ELSE IF h # None /\ h[1] \in hashes THEN FALSE
        ELSE TRUE

map_to_usage_entry(data, mode) ==
    LET ts_value == json_get(data, "timestamp")
        timestamp == IF ts_value = None THEN None ELSE TimestampProcessor_parse(ts_value[1])
        tokens == TokenExtractor_extract(data)
        model == extract_model_name(data)
        costUSD == IF json_get(data, "costUSD") = None THEN JNull ELSE json_get(data, "costUSD")[1]
        message_id == lookup_message_id(data)
        request_id == lookup_request_id(data)
    IN  IF timestamp = None THEN None
        ELSE IF tokens.input_tokens = 0 /\ tokens.output_tokens = 0 THEN None
        ELSE Some([ timestamp |-> timestamp[1],
                    input_tokens |-> tokens.input_tokens,
                    output_tokens |-> tokens.output_tokens,
                    cache_creation_tokens |-> tokens.cache_creation_input_tokens,
                    cache_read_tokens |-> tokens.cache_read_input_tokens,
                    cost_usd |-> calculate_cost_for_entry(model, tokens, costUSD, mode),
                    model |-> model,
                    message_id |-> IF message_id = None THEN <<>> ELSE message_id[1],
                    request_id |-> IF request_id = None THEN s_unknown ELSE request_id[1] ])

(* Fault variant: a malformed line makes the file give up what it read.    *)
process_line_malformed_aborts(st, line, cutoff, raw, mode) ==
    IF line.kind = "malformed" THEN [st EXCEPT !.entries = <<>>, !.raw_data = None]
    ELSE IF line.kind # "json" THEN st
    ELSE IF ~should_process_entry(line.value, cutoff, st.hashes) THEN st
    ELSE LET entry == map_to_usage_entry(line.value, mode)
             h == create_unique_hash(line.value)
         IN  [ entries |-> IF entry # None THEN Append(st.entries, entry[1]) ELSE st.entries,
               hashes |-> IF entry # None /\ h # None THEN st.hashes \cup {h[1]} ELSE st.hashes,
               raw_data |-> IF raw /\ st.raw_data # None
                            THEN Some(Append(st.raw_data[1], line.value))
                            ELSE st.raw_data ]

(* A line of a file is blank (or unreadable), malformed, or holds a JSON   *)
(* value.  One iteration of the `for line_result in reader.lines()` loop   *)
(* of process_single_file on (entries, raw_data, hashes).                  *)
(* process_line, which registers the key of every line that passes the    *)
(* filters, mapped or not.                                                 *)
process_line_registering_dropped(st, line, cutoff, raw, mode) ==
    IF line.kind # "json" THEN st
    ELSE IF ~should_process_entry(line.value, cutoff, st.hashes) THEN st
    ELSE LET entry == map_to_usage_entry(line.value, mode)
             h == create_unique_hash(line.value)
         IN  [ entries |-> IF entry # None THEN Append(st.entries, entry[1]) ELSE st.entries,
               hashes |-> IF h # None THEN st.hashes \cup {h[1]} ELSE st.hashes,
               raw_data |-> IF raw /\ st.raw_data # None
                            THEN Some(Append(st.raw_data[1], line.value))
                            ELSE st.raw_data ]

process_line(st, line, cutoff, raw, mode) ==
    IF line.kind # "json" THEN st
    ELSE IF ~should_process_entry(line.value, cutoff, st.hashes) THEN st
    ELSE LET entry == map_to_usage_entry(line.value, mode)
             h == create_unique_hash(line.value)
         IN  [ entries |-> IF entry # None THEN Append(st.entries, entry[1]) ELSE st.entries,
               hashes |-> IF entry # None /\ h # None THEN st.hashes \cup {h[1]} ELSE st.hashes,
               raw_data |-> IF raw /\ st.raw_data # None
                            THEN Some(Append(st.raw_data[1], line.value))
                            ELSE st.raw_data ]

RECURSIVE process_lines(_, _, _, _, _)
process_lines(st, lines, cutoff, raw, mode) ==
    IF lines = <<>> THEN st
    ELSE process_lines(process_line(st, Head(lines), cutoff, raw, mode), Tail(lines), cutoff, raw, mode)

(* process_single_file: (entries, raw_data) and the hashes it leaves.      *)
process_single_file(file, mode, cutoff, hashes, raw) ==
    IF ~file.openable THEN [entries |-> <<>>, raw_data |-> None, hashes |-> hashes]
    ELSE process_lines([entries |-> <<>>, raw_data |-> IF raw THEN Some(<<>>) ELSE None, hashes |-> hashes],
                       file.lines, cutoff, raw, mode)

(* `if include_raw { if let (Some(dest), Some(src)) = ... dest.extend }`.   *)
extend_raw(dest, src, raw) == IF raw /\ dest # None /\ src # None THEN Some(dest[1] \o src[1]) ELSE dest

(* Vec::sort_by_key(|e| e.timestamp): a stable sort.                       *)
RECURSIVE insert_by_timestamp(_, _)
insert_by_timestamp(sorted, e) ==
    IF sorted = <<>> THEN <<e>>
    ELSE IF Last(sorted).timestamp <= e.timestamp THEN Append(sorted, e)
    ELSE Append(insert_by_timestamp(SubSeq(sorted, 1, Len(sorted) - 1), e), Last(sorted))

RECURSIVE sort_by_timestamp(_)
sort_by_timestamp(es) ==
    IF es = <<>> THEN <<>>
    ELSE insert_by_timestamp(sort_by_timestamp(SubSeq(es, 1, Len(es) - 1)), Last(es))

(* The `for file_path in &jsonl_files` loop of load_usage_entries on       *)
(* (all_entries, raw_entries, processed_hashes).                           *)
RECURSIVE load_files(_, _, _, _, _)
load_files(acc, fs, cutoff, mode, raw) ==
    IF fs = <<>> THEN acc
    ELSE LET r == process_single_file(Head(fs), mode, cutoff, acc.hashes, raw)
         IN  load_files([ entries |-> acc.entries \o r.entries,
                          raw_entries |-> extend_raw(acc.raw_entries, r.raw_data, raw),
                          hashes |-> r.hashes ],
                        Tail(fs), cutoff, mode, raw)

(* load_usage_entries as a function of the files in read order.            *)
load_usage_entries(fs, cutoff, mode, raw) ==
    IF fs = <<>> THEN [entries |-> <<>>, raw_entries |-> None]
    ELSE LET acc == load_files([entries |-> <<>>, raw_entries |-> IF raw THEN Some(<<>>) ELSE None, hashes |-> {}],
                               fs, cutoff, mode, raw)
         IN  [entries |-> sort_by_timestamp(acc.entries), raw_entries |-> acc.raw_entries]

----------------------------------------------------------------------------
(* The lines the loader is given.  A JSON line has a timestamp (absent, an *)
(* epoch number in the first hour, or the text of an instant more than a   *)
(* session later), ids (message "a" at the top level with "requestId",     *)
(* message "a" nested under "message" with "request_id", message "b", or   *)
(* message "a" with no request id) and token counts (some, or none).       *)

MaxFiles == 2
MaxLines == 2

LateTime == session_delta + 1

CostMode_Auto == "Auto"

TimestampForms == {"absent", "number", "text"}
IdForms == {"top", "nested", "other", "no_request"}
TokenForms == {"counts", "none"}

Merge(f, g) == [k \in (DOMAIN f) \cup (DOMAIN g) |-> IF k \in DOMAIN g THEN g[k] ELSE f[k]]

SampleUsage == [input_tokens |-> JNum(1), output_tokens |-> JNum(0), cache_read_input_tokens |-> JNum(2)]

SampleDoc(tsf, idf, tokf) ==
    LET ts_piece == CASE tsf = "number" -> [timestamp |-> JNum(0)]
                      [] tsf = "text" -> [timestamp |-> JStr(to_rfc3339(LateTime))]
                      [] OTHER -> <<>>
        message == IF tokf = "counts"
                   THEN [id |-> JStr(<<"a">>), usage |-> JObj(SampleUsage)]
                   ELSE [id |-> JStr(<<"a">>)]
        id_piece == CASE idf = "top" -> [message_id |-> JStr(<<"a">>), requestId |-> JStr(<<"r">>)]
                      [] idf = "nested" -> [message |-> JObj(message), request_id |-> JStr(<<"r">>)]
                      [] idf = "other" -> [message_id |-> JStr(<<"b">>), requestId |-> JStr(<<"r">>)]
                      [] OTHER -> [message_id |-> JStr(<<"a">>)]
        tok_piece == IF tokf = "counts" /\ idf # "nested" THEN SampleUsage ELSE <<>>
    IN  JObj(Merge(Merge(ts_piece, id_piece), tok_piece))

SampleDocs == {SampleDoc(tsf, idf, tokf) : tsf \in TimestampForms, idf \in IdForms, tokf \in TokenForms}

SampleLines == {[kind |-> "blank", value |-> JNull], [kind |-> "malformed", value |-> JNull]} \cup {[kind |-> "json", value |-> d] : d \in SampleDocs}

CutoffSamples == {None, Some(LateTime)}

RECURSIVE TotalLines(_)
TotalLines(fs) == IF fs = <<>> THEN 0 ELSE Len(Head(fs).lines) + TotalLines(Tail(fs))

----------------------------------------------------------------------------
(* Step 3 of analyze_usage: burn rates and projections.  A block's         *)
(* instants are in seconds here; a duration in minutes is kept as the      *)
(* number of sixtieths of a minute, a real number as the pair              *)
(* <<numerator, denominator>>.                                             *)

total_tokens(block) ==
    block.token_counts.input_tokens + block.token_counts.output_tokens
        + block.token_counts.cache_creation_tokens + block.token_counts.cache_read_tokens


seconds_per_minute == 60

(* SessionBlock::duration_minutes: f64::max(secs / 60.0, 1.0).             *)
duration_minutes(block) ==
    LET end == IF block.actual_end_time # None THEN block.actual_end_time[1] ELSE block.end_time
        secs == end - block.start_time
    IN  IF secs > seconds_per_minute THEN secs ELSE seconds_per_minute

(* calculate_burn_rate with a duration that is not raised to one minute.   *)
calculate_burn_rate_unclamped(block) ==
    LET end == IF block.actual_end_time # None THEN block.actual_end_time[1] ELSE block.end_time
        secs == end - block.start_time
    IN  IF ~block.is_active THEN None
        ELSE IF secs < seconds_per_minute THEN None
        ELSE IF total_tokens(block) = 0 THEN None
        ELSE Some([ tokens_per_minute |-> <<total_tokens(block) * seconds_per_minute, secs>>,
                    cost_per_hour |-> <<block.cost_usd * seconds_per_minute * 60, secs>> ])

calculate_burn_rate(block) ==
    IF ~block.is_active THEN None
    ELSE IF duration_minutes(block) < seconds_per_minute THEN None
    ELSE IF total_tokens(block) = 0 THEN None
    ELSE Some([ tokens_per_minute |-> <<total_tokens(block) * seconds_per_minute, duration_minutes(block)>>,
                cost_per_hour |-> <<block.cost_usd * seconds_per_minute * 60, duration_minutes(block)>> ])

(* f64::round of the real n / d, n >= 0, d > 0, as u64.                    *)
round_ratio(n, d) == (2 * n + d) \div (2 * d)

(* project_block_usage; `t` is what its Utc::now() reads.  The product     *)
(* cost_per_hour * remaining_hours is taken with the 3600 of the hours     *)
(* cancelled against the 60 * 60 of the rate.                              *)
project_block_usage(burn_rate, end_time, current_tokens, current_cost, t) ==
    LET remaining_secs == end_time - t
        tpm == burn_rate.tokens_per_minute
        cph == burn_rate.cost_per_hour
    IN  IF remaining_secs <= 0 THEN None
        ELSE Some([ projected_total_tokens |->
                        current_tokens + round_ratio(tpm[1] * remaining_secs, tpm[2] * seconds_per_minute),
                    projected_total_cost |->
                        <<current_cost * cph[2] + (cph[1] \div (seconds_per_minute * 60)) * remaining_secs, cph[2]>>,
                    remaining_minutes |-> <<remaining_secs, seconds_per_minute>> ])

SecondsPerTick == (seconds_per_minute * 60) \div TicksPerHour

(* The block with its instants in seconds.                                 *)
in_seconds(block) ==
    [block EXCEPT !.start_time = @ * SecondsPerTick,
                  !.end_time = @ * SecondsPerTick,
                  !.actual_end_time = IF @ = None THEN None ELSE Some(@[1] * SecondsPerTick)]

(* The body of the loop of process_burn_rates for one block; `t` is the    *)
(* clock, in ticks, when the projection is made.                           *)
process_burn_rate(block, t) ==
    IF ~block.is_active THEN block
    ELSE LET rate == calculate_burn_rate(in_seconds(block))
         IN  IF rate = None THEN block
             ELSE LET projection == project_block_usage(rate[1], block.end_time * SecondsPerTick,
                                                        total_tokens(block), block.cost_usd,
                                                        t * SecondsPerTick)
                      rated == [block EXCEPT !.burn_rate_snapshot = rate]
                  IN  IF projection = None THEN rated
                      ELSE [rated EXCEPT !.projection_data =
                               Some([totalTokens |-> projection[1].projected_total_tokens,
                                     totalCost |-> projection[1].projected_total_cost,
                                     remainingMinutes |-> projection[1].remaining_minutes])]

process_burn_rates(bs, clock) == [i \in DOMAIN bs |-> process_burn_rate(bs[i], clock[i])]

(* What Utc::now() reads in the calls of project_block_usage, one per      *)
(* block and never running backwards, from the `now` of                    *)
(* mark_active_blocks on.                                                  *)
ProjectionClocks(bs, t) ==
    {clock \in [DOMAIN bs -> {t, t + session_delta}] :
        \A i \in DOMAIN bs : \A k \in DOMAIN bs : i < k => clock[i] <= clock[k]}

----------------------------------------------------------------------------
(* load_usage_entries as a state machine, followed by steps 2 and 3 of     *)
(* analyze_usage.  `files` records what was read, in read order.           *)

InitLoad ==
    /\ entries = <<>>
    /\ blocks = <<>>
    /\ current_block = None
    /\ now = None
    /\ detections = <<>>
    /\ pc = "load"
    /\ files = <<>>
    /\ cutoff_time \in CutoffSamples
    /\ include_raw \in BOOLEAN
    /\ processed_hashes = {}
    /\ all_entries = <<>>
    /\ raw_entries = None
    /\ file_entries = <<>>
    /\ file_raw = None
    /\ RuntimeIdle

(* The accumulators are created once the file list is known not to be      *)
(* empty, before the first file is processed.                              *)
raw_entries_at_loop == IF files = <<>> THEN (IF include_raw THEN Some(<<>>) ELSE None) ELSE raw_entries

(* find_jsonl_files found nothing: (Vec::new(), None).                     *)
NoFiles ==
    /\ pc = "load"
    /\ files = <<>>
    /\ pc' = "loaded"
    /\ UNCHANGED <<rtVars, segVars, loadVars, auxVars>>

(* process_single_file starts on the next file and opens it.               *)
OpenFile ==
    /\ pc = "load"
    /\ Len(files) < MaxFiles
    /\ files' = Append(files, [openable |-> TRUE, lines |-> <<>>])
    /\ raw_entries' = raw_entries_at_loop
    /\ file_entries' = <<>>
    /\ file_raw' = IF include_raw THEN Some(<<>>) ELSE None
    /\ pc' = "file"
    /\ UNCHANGED <<rtVars, segVars, cutoff_time, include_raw, processed_hashes, all_entries, auxVars>>

(* process_single_file cannot open the next file: (Vec::new(), None).      *)
OpenFileFails ==
    /\ pc = "load"
    /\ Len(files) < MaxFiles
    /\ files' = Append(files, [openable |-> FALSE, lines |-> <<>>])
    /\ raw_entries' = extend_raw(raw_entries_at_loop, None, include_raw)
    /\ UNCHANGED <<rtVars, segVars, cutoff_time, include_raw, processed_hashes, all_entries, file_entries, file_raw, pc, auxVars>>

(* One line of the open file.                                              *)
ReadLine ==
    /\ pc = "file"
    /\ TotalLines(files) < MaxLines
    /\ \E line \in SampleLines :
          LET st == process_line([entries |-> file_entries, raw_data |-> file_raw, hashes |-> processed_hashes],
                                 line, cutoff_time, include_raw, CostMode_Auto)
          IN  /\ file_entries' = st.entries
              /\ file_raw' = st.raw_data
              /\ processed_hashes' = st.hashes
              /\ files' = [files EXCEPT ![Len(files)].lines = Append(@, line)]
    /\ UNCHANGED <<rtVars, segVars, cutoff_time, include_raw, all_entries, raw_entries, pc, auxVars>>

(* The file is exhausted: its entries and raw values join the others.      *)
EndOfFile ==
    /\ pc = "file"
    /\ all_entries' = all_entries \o file_entries
    /\ raw_entries' = extend_raw(raw_entries, file_raw, include_raw)
    /\ file_entries' = <<>>
    /\ file_raw' = None
    /\ pc' = "load"
    /\ UNCHANGED <<rtVars, segVars, files, cutoff_time, include_raw, processed_hashes, auxVars>>

(* After the last file the entries are sorted and returned.                *)
SortAndReturn ==
    /\ pc = "load"
    /\ files # <<>>
    /\ all_entries' = sort_by_timestamp(all_entries)
    /\ pc' = "loaded"
    /\ UNCHANGED <<rtVars, segVars, files, cutoff_time, include_raw, processed_hashes, raw_entries, file_entries, file_raw, auxVars>>

(* analyze_usage, step 2 (it loads with include_raw = true).               *)
TransformLoaded ==
    /\ pc = "loaded"
    /\ include_raw
    /\ \E t \in LimitNowSamples :
          /\ entries' = all_entries
          /\ blocks' = transform_to_blocks(all_entries, t)
          /\ now' = Some(t)
    /\ pc' = "analyzed"
    /\ UNCHANGED <<current_block, detections, loadVars, rtVars, auxVars>>

(* Step 3 of analyze_usage.                                                *)
ProcessBurnRates ==
    /\ pc = "analyzed"
    /\ \E clock \in ProjectionClocks(blocks, now[1]) :
          blocks' = process_burn_rates(blocks, clock)
    /\ pc' = "rated"
    /\ UNCHANGED <<entries, current_block, now, detections, loadVars, rtVars, auxVars>>

NextLoad == NoFiles \/ OpenFile \/ OpenFileFails \/ ReadLine \/ EndOfFile \/ SortAndReturn \/ TransformLoaded \/ ProcessBurnRates

SpecLoad == InitLoad /\ [][NextLoad]_vars

----------------------------------------------------------------------------
(* A DataManager driven by an arbitrary caller: get_data, invalidate_cache *)
(* and the passing of time, in any order.                                  *)

MaxInstant == 4

MaxFetches == 6

MaxCallTicks == 1

TTLSamples == {0, 2}

(* The outcomes of the runs of one call when the blocks do not matter.     *)
PlainOutcomes == {[ok |-> FALSE], [ok |-> TRUE, blocks |-> <<>>]}

(* The engine's variables when only the runtime is modelled.               *)
EngineIdle ==
    /\ entries = <<>>
    /\ blocks = <<>>
    /\ current_block = None
    /\ now = None
    /\ detections = <<>>
    /\ pc = "runtime"
    /\ LoaderIdle
    /\ AuxIdle

InitData ==
    /\ EngineIdle
    /\ data_manager \in {DataManager_new(ttl) : ttl \in TTLSamples}
    /\ instant = 0
    /\ fetch_count = 0
    /\ last_good = None
    /\ invalidated = FALSE
    /\ last_call = NoCall
    /\ SessionMonitorIdle
    /\ OrchestratorIdle

GetData ==
    /\ \E force_refresh \in BOOLEAN, outcomes \in [1..MAX_RETRY_ATTEMPTS -> PlainOutcomes], d \in 0..MaxCallTicks :
          LET r == get_data(data_manager, force_refresh, instant, outcomes, fetch_count, d)
              f == fetch_with_retry(outcomes, fetch_count)
          IN  /\ fetch_count + r.runs <= MaxFetches
              /\ instant + d <= MaxInstant
              /\ r.runs = 0 => d = 0
              /\ data_manager' = r.self
              /\ instant' = instant + d
              /\ fetch_count' = fetch_count + r.runs
              /\ last_good' = IF r.runs > 0 /\ f.res.ok THEN Some(f.res.v) ELSE last_good
              /\ invalidated' = IF r.runs > 0 /\ f.res.ok THEN FALSE ELSE invalidated
              /\ last_call' = CallRecord("get_data", force_refresh, data_manager, instant, last_good, r)
    /\ UNCHANGED <<segVars, loadVars, smVars, orchVars, pc, auxVars>>

InvalidateCache ==
    /\ data_manager' = invalidate_cache(data_manager)
    /\ invalidated' = TRUE
    /\ last_call' = CallRecord("invalidate_cache", FALSE, data_manager, instant, last_good, [runs |-> 0, result |-> None])
    /\ UNCHANGED <<instant, fetch_count, last_good, segVars, loadVars, smVars, orchVars, pc, auxVars>>

Elapse ==
    /\ instant < MaxInstant
    /\ instant' = instant + 1
    /\ UNCHANGED <<data_manager, fetch_count, last_good, invalidated, last_call, segVars, loadVars, smVars, orchVars, pc, auxVars>>

NextData == GetData \/ InvalidateCache \/ Elapse

SpecData == InitData /\ [][NextData]_vars

----------------------------------------------------------------------------
(* monitor-runtime/src/session_monitor.rs: SessionMonitor, which follows   *)
(* the active block from one monitoring cycle to the next.  Its data is a  *)
(* serde_json Value; session ids are strings.                              *)

JArr(a) == [t |-> "arr", a |-> a]

JBool(b) == [t |-> "bool", b |-> b]

(* value[key] (Index): Null where get(key) is None.                        *)
json_index(value, key) == LET g == json_get(value, key) IN IF g = None THEN JNull ELSE g[1]

is_number(v) == v.t = "num"

is_boolean(v) == v.t = "bool"

(* The body of validate_data's loop: the errors of block number idx.       *)
validate_block(idx, block) ==
    LET id == json_get(block, "id")
        isActive == json_get(block, "isActive")
        totalTokens == json_get(block, "totalTokens")
        costUSD == json_get(block, "costUSD")
    IN  (IF id = None THEN <<<<idx, "missing required field 'id'">>>> ELSE <<>>)
        \o (IF isActive = None THEN <<<<idx, "missing required field 'isActive'">>>>
            ELSE IF ~is_boolean(isActive[1]) THEN <<<<idx, "'isActive' must be a boolean">>>>
            ELSE <<>>)
        \o (IF totalTokens = None THEN <<<<idx, "missing required field 'totalTokens'">>>>
            ELSE IF ~is_number(totalTokens[1]) THEN <<<<idx, "'totalTokens' must be a number">>>>
            ELSE <<>>)
        \o (IF costUSD = None THEN <<<<idx, "missing required field 'costUSD'">>>>
            ELSE IF ~is_number(costUSD[1]) THEN <<<<idx, "'costUSD' must be a number">>>>
            ELSE <<>>)

RECURSIVE validate_blocks(_, _)
validate_blocks(bs, idx) ==
    IF idx >= Len(bs) THEN <<>> ELSE validate_block(idx, bs[idx + 1]) \o validate_blocks(bs, idx + 1)

validate_data(data) ==
    IF data.t # "obj" THEN [is_valid |-> FALSE, errors |-> <<"data must be a JSON object">>]
    ELSE LET blks == json_get(data, "blocks")
         IN  IF blks = None THEN [is_valid |-> FALSE, errors |-> <<"missing required field: blocks">>]
             ELSE IF blks[1].t # "arr" THEN [is_valid |-> FALSE, errors |-> <<"field 'blocks' must be an array">>]
             ELSE LET errors == validate_blocks(blks[1].a, 0)
                  IN  [is_valid |-> errors = <<>>, errors |-> errors]

(* iter().find(|b| b["isActive"].as_bool() == Some(true)).                 *)
RECURSIVE find_active(_)
find_active(bs) ==
    IF bs = <<>> THEN None
    ELSE IF json_index(Head(bs), "isActive") = JBool(TRUE) THEN Some(Head(bs))
    ELSE find_active(Tail(bs))

(* data["blocks"].as_array().and_then(...).                                *)
active_block_of(data) ==
    LET blks == json_index(data, "blocks")
    IN  IF blks.t = "arr" THEN find_active(blks.a) ELSE None

(* block["id"].as_str().unwrap_or("").to_string().                         *)
session_id_of(block) == LET id == json_index(block, "id") IN IF id.t = "str" THEN id.s ELSE ""

on_session_change(self, session_id, block) ==
    LET tokens == and_then_as_u64(Some(json_index(block, "totalTokens")))
        cost == json_index(block, "costUSD")
    IN  [self EXCEPT !.session_history =
            Append(@, [id |-> session_id,
                       started_at |-> and_then_as_str(json_get(block, "startTime")),
                       tokens |-> IF tokens = None THEN 0 ELSE tokens[1],
                       cost |-> IF is_number(cost) THEN cost.n ELSE 0])]

(* update without the early return on invalid data.                        *)
update_unvalidated(self, data) ==
    LET v == validate_data(data)
        active_block == active_block_of(data)
    IN  IF active_block # None
        THEN LET session_id == session_id_of(active_block[1])
                 changed == IF self.current_session_id # Some(session_id)
                            THEN on_session_change(self, session_id, active_block[1])
                            ELSE self
             IN  [self |-> [changed EXCEPT !.current_session_id = Some(session_id)],
                  is_valid |-> v.is_valid, errors |-> v.errors]
        ELSE [self |-> [self EXCEPT !.current_session_id = None],
              is_valid |-> v.is_valid, errors |-> v.errors]

update(self, data) ==
    LET v == validate_data(data)
    IN  IF ~v.is_valid THEN [self |-> self, is_valid |-> FALSE, errors |-> v.errors]
        ELSE LET active_block == active_block_of(data)
             IN  IF active_block # None
                 THEN LET session_id == session_id_of(active_block[1])
                          changed == IF self.current_session_id # Some(session_id)
                                     THEN on_session_change(self, session_id, active_block[1])
                                     ELSE self
                      IN  [self |-> [changed EXCEPT !.current_session_id = Some(session_id)],
                           is_valid |-> TRUE, errors |-> v.errors]
                 ELSE [self |-> [self EXCEPT !.current_session_id = None],
                       is_valid |-> TRUE, errors |-> v.errors]

session_count(self) == Len(self.session_history)

(* The ids that valid updates saw on their active block, as a history.     *)
observe(seen, data) ==
    IF validate_data(data).is_valid /\ active_block_of(data) # None
    THEN seen \cup {json_index(active_block_of(data)[1], "id")}
    ELSE seen

----------------------------------------------------------------------------
(* A SessionMonitor shown arbitrary data, one update after another.        *)

MaxBlocks == 2

MaxHistory == 3

SampleIds == {JStr("a"), JStr("b"), JNum(1), JNum(2)}

MakeBlock(id, is_active) ==
    JObj([id |-> id,
          isActive |-> JBool(is_active),
          totalTokens |-> JNum(10),
          costUSD |-> JNum(5),
          startTime |-> JStr(to_rfc3339(0))])

SampleBlocks == {MakeBlock(id, a) : id \in SampleIds, a \in BOOLEAN}

SampleBlockLists == UNION {[1..n -> SampleBlocks] : n \in 0..MaxBlocks}

(* Data that validate_data rejects: no object, no blocks, blocks no array, *)
(* a block without fields, an active block with fields of the wrong type,  *)
(* alone and after a sound active block.                                   *)
BadBlock == JObj([id |-> JStr("b"), isActive |-> JBool(TRUE), totalTokens |-> JStr("lots"), costUSD |-> JStr("free")])

InvalidData ==
    {JArr(<<JNum(1)>>),
     JObj([no_blocks |-> JBool(TRUE)]),
     JObj([blocks |-> JStr("not-an-array")]),
     JObj([blocks |-> JArr(<<JObj(<<>>)>>)]),
     JObj([blocks |-> JArr(<<BadBlock>>)]),
     JObj([blocks |-> JArr(<<MakeBlock(JStr("a"), TRUE), BadBlock>>)])}

SampleData == {JObj([blocks |-> JArr(bs)]) : bs \in SampleBlockLists} \cup InvalidData

InitSession ==
    /\ EngineIdle
    /\ DataManagerIdle
    /\ SessionMonitorIdle
    /\ OrchestratorIdle

Update ==
    /\ \E data \in SampleData :
          LET r == update(session_monitor, data)
          IN  /\ session_count(r.self) <= MaxHistory
              /\ session_monitor' = r.self
              /\ last_update' = UpdateRecord(data, session_monitor, r)
              /\ observed' = observe(observed, data)
    /\ UNCHANGED <<segVars, loadVars, dmVars, orchVars, pc, auxVars>>

NextSession == Update

SpecSession == InitSession /\ [][NextSession]_vars

----------------------------------------------------------------------------
(* monitor-runtime/src/orchestrator.rs: the monitoring loop, a task that   *)
(* owns a DataManager and a SessionMonitor and sends a snapshot down a     *)
(* bounded channel on start and after every interval tick.  The task       *)
(* stands at one of its awaits; what lies between two awaits is one step.  *)
(* The buffer of the channel is counted, not listed: what a snapshot       *)
(* carries is fixed when it is handed to send.                             *)

channel_capacity == 16

(* DataManager::new(30, 192, ..): thirty seconds, at fifteen seconds to    *)
(* the tick of the monotonic clock.                                        *)
loop_cache_ttl == 2

analysis_to_value(result) ==
    JObj([blocks |-> JArr([i \in 1..Len(result.blocks) |->
            JObj([id |-> JStr(result.blocks[i].id),
                  isActive |-> JBool(result.blocks[i].is_active),
                  totalTokens |-> JNum(total_tokens(result.blocks[i])),
                  costUSD |-> JNum(result.blocks[i].cost_usd),
                  startTime |-> JStr(to_rfc3339(result.blocks[i].start_time))])])])

(* The MonitoringData built by fetch_and_send (the plan and its token      *)
(* limit are fixed at construction and left out).                          *)
MonitoringData(analysis, monitor) ==
    [analysis |-> analysis,
     session_id |-> monitor.current_session_id,
     session_count |-> session_count(monitor)]

(* What the log files hold when a run of the analysis reads them, and the  *)
(* wall clock it samples: no record with any clock, a record of one        *)
(* session with the clock inside it, records of two sessions with the      *)
(* clock inside the second.                                                *)
LoopStreams ==
    {es \in SampleStreams : /\ \A i \in 1..Len(es) : es[i].timestamp \in {0, 2 * session_delta}
                            /\ \A i \in 1..(Len(es) - 1) : es[i].timestamp < es[i + 1].timestamp}

LoopNowOf(es) == IF es = <<>> THEN 0 ELSE Last(es).timestamp + 1

(* The blocks a successful run can come back with.                         *)
LoopAnalyses == {transform_to_blocks(es, LoopNowOf(es)) : es \in LoopStreams}

(* A call's runs all succeed or all fail.                                  *)
LoopFailures == {0, MAX_RETRY_ATTEMPTS}

(* k runs fail, then a run succeeds with the given blocks.                 *)
OutcomesOf(k, bs) == [i \in 1..MAX_RETRY_ATTEMPTS |-> IF i <= k THEN [ok |-> FALSE] ELSE [ok |-> TRUE, blocks |-> bs]]

InitLoop ==
    /\ EngineIdle
    /\ data_manager = DataManager_new(loop_cache_ttl)
    /\ instant = 0
    /\ fetch_count = 0
    /\ last_good = None
    /\ invalidated = FALSE
    /\ last_call = NoCall
    /\ SessionMonitorIdle
    /\ loop_pc = "initial fetch"
    /\ pending = None
    /\ rx = "open"
    /\ buffered = 0

(* fetch_and_send up to its await of tx.send, or to its early return when  *)
(* get_data has nothing.                                                   *)
FetchAndSend(force, pc_sending, pc_skipped) ==
    \E k \in LoopFailures, bs \in LoopAnalyses, d \in 0..MaxCallTicks :
       LET outcomes == OutcomesOf(k, bs)
           r == get_data(data_manager, force, instant, outcomes, fetch_count, d)
           f == fetch_with_retry(outcomes, fetch_count)
       IN  /\ fetch_count + r.runs <= MaxFetches
           /\ instant + d <= MaxInstant
           /\ r.runs = 0 => d = 0
           /\ data_manager' = r.self
           /\ instant' = instant + d
           /\ fetch_count' = fetch_count + r.runs
           /\ last_good' = IF r.runs > 0 /\ f.res.ok THEN Some(f.res.v) ELSE last_good
           /\ invalidated' = IF r.runs > 0 /\ f.res.ok THEN FALSE ELSE invalidated
           /\ last_call' = CallRecord("get_data", force, data_manager, instant, last_good, r)
           /\ IF r.result = None
              THEN /\ loop_pc' = pc_skipped
                   /\ UNCHANGED <<smVars, pending>>
              ELSE LET data == analysis_to_value(r.result[1])
                       u == update(session_monitor, data)
                   IN  /\ session_count(u.self) <= MaxHistory
                       /\ session_monitor' = u.self
                       /\ last_update' = UpdateRecord(data, session_monitor, u)
                       /\ observed' = observe(observed, data)
                       /\ pending' = Some(MonitoringData(r.result[1], u.self))
                       /\ loop_pc' = pc_sending

(* The initial fetch, forced.                                              *)
InitialFetchAndSend ==
    /\ loop_pc = "initial fetch"
    /\ FetchAndSend(TRUE, "initial send", "first tick")
    /\ UNCHANGED <<segVars, loadVars, rx, buffered, pc, auxVars>>

(* tx.send(snapshot).await returns Ok: the buffer had room.                *)
SendOk ==
    /\ loop_pc \in {"initial send", "send"}
    /\ rx = "open"
    /\ buffered < channel_capacity
    /\ buffered' = buffered + 1
    /\ pending' = None
    /\ loop_pc' = IF loop_pc = "initial send" THEN "first tick" ELSE "tick"
    /\ UNCHANGED <<segVars, loadVars, dmVars, smVars, rx, pc, auxVars>>

(* tx.send(snapshot).await returns Err: the receiver is gone.              *)
SendErr ==
    /\ loop_pc \in {"initial send", "send"}
    /\ rx = "dropped"
    /\ pending' = None
    /\ loop_pc' = IF loop_pc = "initial send" THEN "first tick" ELSE "tick"
    /\ UNCHANGED <<segVars, loadVars, dmVars, smVars, rx, buffered, pc, auxVars>>

(* The first tick of the interval, which fires at once.                    *)
FirstTick ==
    /\ loop_pc = "first tick"
    /\ loop_pc' = "tick"
    /\ UNCHANGED <<segVars, loadVars, dmVars, smVars, pending, rx, buffered, pc, auxVars>>

(* Fault variant: the loop does not look at tx.is_closed() and goes on.    *)
TickIgnoringClosed ==
    /\ loop_pc = "tick"
    /\ rx = "dropped"
    /\ FetchAndSend(FALSE, "send", "tick")
    /\ UNCHANGED <<segVars, loadVars, rx, buffered, pc, auxVars>>

(* A tick of the interval with the channel closed: break.                  *)
TickExit ==
    /\ loop_pc = "tick"
    /\ rx = "dropped"
    /\ loop_pc' = "exited"
    /\ UNCHANGED <<segVars, loadVars, dmVars, smVars, pending, rx, buffered, pc, auxVars>>

(* A tick of the interval with the channel open: fetch_and_send.           *)
TickFetchAndSend ==
    /\ loop_pc = "tick"
    /\ rx = "open"
    /\ FetchAndSend(FALSE, "send", "tick")
    /\ UNCHANGED <<segVars, loadVars, rx, buffered, pc, auxVars>>

(* The consumer takes a snapshot from the channel.                         *)
Recv ==
    /\ rx = "open"
    /\ buffered > 0
    /\ buffered' = buffered - 1
    /\ UNCHANGED <<segVars, loadVars, dmVars, smVars, loop_pc, pending, rx, pc, auxVars>>

(* The consumer drops the receiver; what the buffer held is dropped.       *)
DropReceiver ==
    /\ rx = "open"
    /\ rx' = "dropped"
    /\ buffered' = 0
    /\ UNCHANGED <<segVars, loadVars, dmVars, smVars, loop_pc, pending, pc, auxVars>>

(* MonitoringHandle::abort: the task is cancelled at its await.            *)
Abort ==
    /\ loop_pc \notin {"exited", "aborted"}
    /\ loop_pc' = "aborted"
    /\ pending' = None
    /\ UNCHANGED <<segVars, loadVars, dmVars, smVars, rx, buffered, pc, auxVars>>

(* Time passes while the task waits.                                       *)
LoopElapse ==
    /\ loop_pc \notin {"exited", "aborted"}
    /\ Elapse

LoopStep == InitialFetchAndSend \/ SendOk \/ SendErr \/ FirstTick \/ TickExit \/ TickFetchAndSend

NextLoop == LoopStep \/ Recv \/ DropReceiver \/ Abort \/ LoopElapse

SpecLoop == InitLoop /\ [][NextLoop]_vars

(* The runtime runs the task: the initial fetch is made, a send returns    *)
(* once there is room or the channel is closed, and the timer fires.       *)
(* Nothing is assumed of a tick that finds the channel open.               *)
SpecLoopFair ==
    /\ SpecLoop
    /\ WF_vars(InitialFetchAndSend)
    /\ WF_vars(SendOk)
    /\ WF_vars(SendErr)
    /\ WF_vars(FirstTick)
    /\ WF_vars(TickExit)

----------------------------------------------------------------------------
(* Properties of the segmenter (Spec) and of the limit assignment          *)
(* (SpecLimits).                                                           *)

(* The windows built so far: the pushed ones, then the open one.           *)
AllBlocks == blocks \o current_block

Indices(s) == 1..Len(s)

GapIndices(bs) == {i \in Indices(bs) : bs[i].is_gap}

RealIndices(bs) == {i \in Indices(bs) : ~bs[i].is_gap}

FiveHours == 5 * TicksPerHour

RECURSIVE FlattenEntries(_)
FlattenEntries(bs) == IF bs = <<>> THEN <<>> ELSE Head(bs).entries \o FlattenEntries(Tail(bs))

RECURSIVE SumMessages(_)
SumMessages(bs) == IF bs = <<>> THEN 0 ELSE Head(bs).sent_messages_count + SumMessages(Tail(bs))

(* The consecutive records that are at least five hours apart.             *)
SilentPairs == {i \in 1..(Len(entries) - 1) : entries[i + 1].timestamp - entries[i].timestamp >= FiveHours}

(* C1: every non-gap window, pushed or still open, has                     *)
(* end == start + 5 hours.                                                 *)
C1_NonGapEndIsStartPlusFiveHours ==
    \A i \in RealIndices(AllBlocks) : AllBlocks[i].end_time = AllBlocks[i].start_time + FiveHours

(* C1 witness: a finished run of three windows, one of them opened by a    *)
(* record that is not on the hour.                                         *)
C1_Witness ==
    /\ pc = "done"
    /\ Len(blocks) >= 3
    /\ \E i \in RealIndices(blocks) : blocks[i].entries[1].timestamp # blocks[i].start_time

(* C2: a gap window exists for two consecutive records if and only if they *)
(* are at least 5 hours apart: every such pair has its gap window (from    *)
(* the first record to the second), every gap window belongs to such a     *)
(* pair, and there are as many gap windows as such pairs.                  *)
C2_GapIffFiveHoursApart ==
    /\ Cardinality(GapIndices(AllBlocks)) = Cardinality(SilentPairs)
    /\ \A i \in SilentPairs : \E j \in GapIndices(AllBlocks) :
          /\ AllBlocks[j].start_time = entries[i].timestamp
          /\ AllBlocks[j].end_time = entries[i + 1].timestamp
    /\ \A j \in GapIndices(AllBlocks) : \E i \in SilentPairs :
          /\ AllBlocks[j].start_time = entries[i].timestamp
          /\ AllBlocks[j].end_time = entries[i + 1].timestamp

(* C2 witness: three records, the first two exactly 5 hours apart (a gap), *)
(* the last two in different windows but less than 5 hours apart (no gap). *)
C2_Witness ==
    /\ pc = "done"
    /\ Len(entries) = 3
    /\ entries[2].timestamp - entries[1].timestamp = FiveHours
    /\ entries[3].timestamp - entries[2].timestamp < FiveHours
    /\ Cardinality(RealIndices(blocks)) = 3
    /\ Cardinality(GapIndices(blocks)) = 1

(* C3 (as claimed): a gap window stands directly after the window that was *)
(* closed when it was made and directly before the window opened then.     *)
C3_GapBetweenClosedAndOpened ==
    \A i \in GapIndices(AllBlocks) :
        /\ i > 1
        /\ ~AllBlocks[i - 1].is_gap
        /\ AllBlocks[i - 1].actual_end_time = Some(AllBlocks[i].start_time)
        /\ i < Len(AllBlocks)
        /\ ~AllBlocks[i + 1].is_gap
        /\ AllBlocks[i + 1].entries[1].timestamp = AllBlocks[i].end_time

(* C4: the records of the windows, window after window, are the input      *)
(* stream (so every record is in exactly one window, in input order); gap  *)
(* windows hold none; each message count is the number of records held,    *)
(* and the counts sum to the input length.                                 *)
C4_RecordsPartitionedInOrder ==
    pc = "done" =>
        /\ FlattenEntries(blocks) = entries
        /\ \A i \in GapIndices(blocks) : blocks[i].entries = <<>>
        /\ \A i \in Indices(blocks) : blocks[i].sent_messages_count = Len(blocks[i].entries)
        /\ SumMessages(blocks) = Len(entries)

(* C4 witness: three records in two windows, two of them in one window.    *)
C4_Witness ==
    /\ pc = "done"
    /\ Len(entries) = 3
    /\ Cardinality(RealIndices(blocks)) = 2
    /\ \E i \in RealIndices(blocks) : blocks[i].sent_messages_count = 2

(* C8: after the limits are assigned, a window holds one message for each  *)
(* detection whose timestamp lies in [start, end] when it is no gap        *)
(* window, and none otherwise.                                             *)
MessagesOf(block, detection) == {k \in Indices(block.limit_messages) : block.limit_messages[k].content = detection.content}

InWindow(block, detection) == block.start_time <= detection.timestamp /\ detection.timestamp <= block.end_time

C9_ActiveIffEndAfterNow ==
    pc = "done" =>
        \A i \in Indices(blocks) :
            blocks[i].is_active <=> (~blocks[i].is_gap /\ now # None /\ blocks[i].end_time > now[1])

(* C9 witness: a window that ends exactly at `now` (not active), an active *)
(* window and a gap window that ends after `now`.                          *)
C9_Witness ==
    /\ pc = "done"
    /\ \E i \in RealIndices(blocks) : blocks[i].end_time = now[1] /\ ~blocks[i].is_active
    /\ \E i \in RealIndices(blocks) : blocks[i].is_active
    /\ \E i \in GapIndices(blocks) : blocks[i].end_time > now[1]

(* C10: a gap window starts at the actual end of the real window before it *)
(* in time, ends at the first record of the real window after that one,    *)
(* holds no records and no tokens, and is not active.  (Where the gap      *)
(* window stands in the list is C3.)                                       *)
RealBefore(bs, g) == {i \in RealIndices(bs) : bs[i].start_time <= g.start_time}

LatestOf(bs, S) == CHOOSE i \in S : \A k \in S : bs[k].start_time <= bs[i].start_time

RealAfter(bs, p) == {i \in RealIndices(bs) : bs[i].start_time > p.start_time}

EarliestOf(bs, S) == CHOOSE i \in S : \A k \in S : bs[k].start_time >= bs[i].start_time

GapWindowWellFormed(bs, g) ==
    /\ RealBefore(bs, g) # {}
    /\ LET p == bs[LatestOf(bs, RealBefore(bs, g))]
       IN  /\ p.actual_end_time = Some(g.start_time)
           /\ RealAfter(bs, p) # {}
           /\ bs[EarliestOf(bs, RealAfter(bs, p))].entries[1].timestamp = g.end_time
    /\ g.entries = <<>>
    /\ g.sent_messages_count = 0
    /\ g.token_counts = TokenCounts_default
    /\ ~g.is_active

C10_GapWindowSpansTheSilence ==
    pc = "done" => \A i \in GapIndices(blocks) : GapWindowWellFormed(blocks, blocks[i])

(* C10 witness: two gap windows; one starts after the start of the window  *)
(* before it and ends off the hour, after `now`.                           *)
C10_Witness ==
    /\ pc = "done"
    /\ Cardinality(GapIndices(blocks)) = 2
    /\ \E i \in GapIndices(blocks) :
          /\ blocks[i].end_time > now[1]
          /\ round_to_hour(blocks[i].end_time) # blocks[i].end_time
          /\ \A k \in RealIndices(blocks) : blocks[k].start_time # blocks[i].start_time

----------------------------------------------------------------------------
(* Properties of the loader (SpecLoad).                                    *)

(* The load has returned.                                                  *)
Returned == pc \in {"loaded", "analyzed"}

RECURSIVE JsonValuesOf(_)
JsonValuesOf(lines) ==
    IF lines = <<>> THEN <<>>
    ELSE (IF Head(lines).kind = "json" THEN <<Head(lines).value>> ELSE <<>>) \o JsonValuesOf(Tail(lines))

(* The successfully parsed lines of the readable files, in read order.     *)
RECURSIVE ParsedLines(_)
ParsedLines(fs) ==
    IF fs = <<>> THEN <<>>
    ELSE (IF Head(fs).openable THEN JsonValuesOf(Head(fs).lines) ELSE <<>>) \o ParsedLines(Tail(fs))

RawStream == IF raw_entries = None THEN <<>> ELSE raw_entries[1]

Occurrences(s, x) == Cardinality({i \in Indices(s) : s[i] = x})

TimeOf(d) == IF json_get(d, "timestamp") = None THEN None ELSE TimestampProcessor_parse(json_get(d, "timestamp")[1])

(* The line is older than the age cutoff.                                  *)
TooOld(d) == cutoff_time # None /\ TimeOf(d) # None /\ TimeOf(d)[1] < cutoff_time[1]

(* The line has a timestamp and a nonzero input or output count.           *)
Mappable(d) == TimeOf(d) # None /\ (TokenExtractor_extract(d).input_tokens > 0 \/ TokenExtractor_extract(d).output_tokens > 0)

HasKey(d) == lookup_message_id(d) # None /\ lookup_request_id(d) # None

SameKey(d, e) == HasKey(d) /\ HasKey(e) /\ lookup_message_id(d) = lookup_message_id(e) /\ lookup_request_id(d) = lookup_request_id(e)

(* The line would be retained if no other line had its key.                *)
OtherwiseRetained(d) == ~TooOld(d) /\ Mappable(d)

(* Line i of ds passes the filters: it is not too old, and no earlier line *)
(* with its key became a record.  Line i becomes a record when it passes   *)
(* and is mappable.                                                        *)
RECURSIVE BecomesRecord(_, _)
PassesFilters(ds, i) == ~TooOld(ds[i]) /\ ~\E j \in 1..(i - 1) : SameKey(ds[j], ds[i]) /\ BecomesRecord(ds, j)

BecomesRecord(ds, i) == PassesFilters(ds, i) /\ Mappable(ds[i])

RECURSIVE PassingLines(_, _)
PassingLines(ds, n) == IF n = 0 THEN <<>> ELSE PassingLines(ds, n - 1) \o (IF PassesFilters(ds, n) THEN <<ds[n]>> ELSE <<>>)

RecordsWithKeyOf(d) == {k \in Indices(all_entries) : Some(all_entries[k].message_id) = lookup_message_id(d) /\ Some(all_entries[k].request_id) = lookup_request_id(d)}

(* C5: when the load has returned, any two parsed lines with the same      *)
(* (message_id, request_id), each of which would be retained on its own,   *)
(* have exactly one record between them in the returned list, and it is    *)
(* the record of a line with that key; the two lines may be in the same    *)
(* file or in different files.                                             *)
C5_OneRecordPerDedupKey ==
    Returned =>
        LET ds == ParsedLines(files)
        IN  \A i, j \in Indices(ds) :
                (i < j /\ SameKey(ds[i], ds[j]) /\ OtherwiseRetained(ds[i]) /\ OtherwiseRetained(ds[j])) =>
                    /\ Cardinality(RecordsWithKeyOf(ds[i])) = 1
                    /\ \A k \in RecordsWithKeyOf(ds[i]) :
                          \E m \in Indices(ds) : SameKey(ds[m], ds[i]) /\ Some(all_entries[k]) = map_to_usage_entry(ds[m], CostMode_Auto)

(* C5 witness: two files of one line each; the lines differ (one names the *)
(* message at the top level, the other under "message") but have the same *)
(* key and both would be retained; one record is returned.                 *)
C5_Witness ==
    /\ Returned
    /\ Len(files) = 2
    /\ \A f \in Indices(files) : files[f].openable /\ Len(files[f].lines) = 1 /\ files[f].lines[1].kind = "json"
    /\ files[1].lines[1].value # files[2].lines[1].value
    /\ SameKey(files[1].lines[1].value, files[2].lines[1].value)
    /\ OtherwiseRetained(files[1].lines[1].value)
    /\ OtherwiseRetained(files[2].lines[1].value)
    /\ Len(all_entries) = 1

(* C6 (as claimed): the requested raw stream holds every parsed line of    *)
(* every readable file, as often as it was read.                           *)
C6_RawStreamIsUnfiltered ==
    (Returned /\ include_raw) => \A d \in SampleDocs : Occurrences(RawStream, d) >= Occurrences(ParsedLines(files), d)

(* C6 (amended): the requested raw stream is, in read order, the parsed    *)
(* lines of the readable files that pass the filters: the lines that are   *)
(* not older than the cutoff and whose key no earlier record has.  Lines   *)
(* with no token counts or no timestamp are among them.                    *)
C6_RawStreamIsTheLinesThatPassTheFilters ==
    (Returned /\ include_raw /\ files # <<>>) =>
        raw_entries = Some(PassingLines(ParsedLines(files), Len(ParsedLines(files))))

(* C6 witness: a raw stream that lacks a line older than the cutoff and    *)
(* holds a line with no token counts, which gave no record.                *)
C6_Witness ==
    /\ Returned
    /\ include_raw
    /\ Len(ParsedLines(files)) = 2
    /\ TooOld(ParsedLines(files)[1])
    /\ ~TooOld(ParsedLines(files)[2])
    /\ ~Mappable(ParsedLines(files)[2])
    /\ RawStream = <<ParsedLines(files)[2]>>
    /\ all_entries = <<>>

(* The orders in which the files read could have been read.                *)
FileOrders(fs) == {[i \in Indices(fs) |-> fs[p[i]]] : p \in {q \in [Indices(fs) -> Indices(fs)] : \A a, b \in Indices(fs) : q[a] = q[b] => a = b}}

(* C7 (as claimed): the window list of the analysis is the one any other   *)
(* read order of the same files gives.                                     *)
C7_WindowsIndependentOfFileOrder ==
    pc = "analyzed" =>
        \A fs \in FileOrders(files) :
            blocks = transform_to_blocks(load_usage_entries(fs, cutoff_time, CostMode_Auto, include_raw).entries, now[1])

----------------------------------------------------------------------------
(* Further properties of the segmenter (Spec).                             *)

RECURSIVE SumOverModels(_, _, _)
SumOverModels(stats, models, field) ==
    IF models = {} THEN 0
    ELSE LET m == CHOOSE x \in models : TRUE
         IN  stats[m][field] + SumOverModels(stats, models \ {m}, field)

TokenFields == {"input_tokens", "output_tokens", "cache_creation_tokens", "cache_read_tokens"}

ThreeHours == 3 * TicksPerHour

(* C11: every non-gap window of the output, the last one included, has its *)
(* actual end set to the timestamp of its last record, and the actual end  *)
(* is not after the nominal end.                                           *)
C11_ActualEndIsLastRecord ==
    pc = "done" =>
        \A i \in RealIndices(blocks) :
            /\ blocks[i].entries # <<>>
            /\ blocks[i].actual_end_time = Some(Last(blocks[i].entries).timestamp)
            /\ blocks[i].actual_end_time[1] <= blocks[i].end_time

(* C11 witness: an output of two windows whose last window holds two       *)
(* records at different instants and ends, in fact, at the second.         *)
C11_Witness ==
    /\ pc = "done"
    /\ Cardinality(RealIndices(blocks)) = 2
    /\ ~Last(blocks).is_gap
    /\ Len(Last(blocks).entries) = 2
    /\ Last(blocks).entries[1].timestamp < Last(blocks).entries[2].timestamp
    /\ Last(blocks).actual_end_time = Some(Last(blocks).entries[2].timestamp)

(* C12: in every non-gap window, pushed or still open, each of the four    *)
(* token counts is the sum of that count over the per-model breakdown, and *)
(* the per-model entry counts sum to the number of records held.           *)
C12_AggregatesAreSumsOverModels ==
    \A i \in RealIndices(AllBlocks) :
        LET b == AllBlocks[i]
        IN  /\ \A f \in TokenFields : b.token_counts[f] = SumOverModels(b.per_model_stats, DOMAIN b.per_model_stats, f)
            /\ SumOverModels(b.per_model_stats, DOMAIN b.per_model_stats, "entries_count") = Len(b.entries)

(* C12 witness: a window of three records and two models, one of the       *)
(* models with two records.                                                *)
C12_Witness ==
    \E i \in RealIndices(AllBlocks) :
        /\ Len(AllBlocks[i].entries) = 3
        /\ Cardinality(DOMAIN AllBlocks[i].per_model_stats) = 2
        /\ \E m \in DOMAIN AllBlocks[i].per_model_stats : AllBlocks[i].per_model_stats[m].entries_count = 2

C14_ThreeHoursApartOneWindow ==
    (pc = "done" /\ Len(entries) = 2 /\ entries[2].timestamp = entries[1].timestamp + ThreeHours) =>
        /\ Len(blocks) = 1
        /\ ~blocks[1].is_gap
        /\ blocks[1].entries = entries

(* C14 witness: the output for t0 off the hour and t0 + 3 hours.           *)
C14_Witness ==
    /\ pc = "done"
    /\ Len(entries) = 2
    /\ entries[1].timestamp % TicksPerHour # 0
    /\ entries[2].timestamp = entries[1].timestamp + ThreeHours
    /\ Len(blocks) = 1

----------------------------------------------------------------------------
(* Properties of the DataManager (SpecData).                               *)

(* The latest operation was a get_data that ran the analysis and every     *)
(* attempt failed: no new Ok value came out of it.                         *)
RefreshFailed ==
    /\ last_call.op = "get_data"
    /\ last_call.runs > 0
    /\ last_good = last_call.good_before

(* The age of the cache the latest call found (the cache was not empty).   *)
AgeFound == last_call.at - last_call.before.cache_timestamp[1]

(* C15 as stated: when every attempt of a refresh fails and an earlier     *)
(* fetch on this manager succeeded, get_data returns the most recent       *)
(* successfully fetched result.                                            *)
C15_FailedRefreshReturnsLastGood ==
    (RefreshFailed /\ last_call.good_before # None) => last_call.result = last_call.good_before

(* C15, amended: when every attempt of a refresh fails, get_data returns   *)
(* the most recent successfully fetched result if some earlier fetch       *)
(* succeeded and invalidate_cache was not called since, and None           *)
(* otherwise.                                                              *)
C15_FailedRefreshReturnsWhatTheCacheHolds ==
    RefreshFailed =>
        last_call.result = (IF last_call.good_before # None /\ ~invalidated THEN last_call.good_before ELSE None)

(* A refresh of a stale cache failed three times and the earlier result    *)
(* came back.                                                              *)
C15_Witness ==
    /\ RefreshFailed
    /\ last_call.runs = MAX_RETRY_ATTEMPTS
    /\ ~last_call.force_refresh
    /\ last_call.good_before # None
    /\ ~invalidated
    /\ last_call.result = last_call.good_before

(* C16: get_data runs the analysis iff force_refresh is true, or the cache *)
(* is empty, or the age of the cache is at least the TTL; otherwise it     *)
(* returns the cached result and leaves the manager as it was.  With a TTL *)
(* of 0 every call runs the analysis.                                      *)
C16_FetchIffForcedEmptyOrStale ==
    last_call.op = "get_data" =>
        /\ last_call.runs > 0 <=>
              (\/ last_call.force_refresh
               \/ last_call.before.cache = None
               \/ AgeFound >= last_call.before.cache_ttl)
        /\ last_call.runs = 0 => (last_call.result = last_call.before.cache /\ data_manager = last_call.before)
        /\ last_call.before.cache_ttl = 0 => last_call.runs > 0

(* An unforced call found a cache exactly as old as the TTL and ran the    *)
(* analysis.                                                               *)
C16_Witness ==
    /\ last_call.op = "get_data"
    /\ ~last_call.force_refresh
    /\ last_call.before.cache # None
    /\ last_call.before.cache_ttl > 0
    /\ AgeFound = last_call.before.cache_ttl
    /\ last_call.runs > 0

----------------------------------------------------------------------------
(* Properties of the SessionMonitor (SpecSession).                         *)

(* The active block the latest update was shown (Option).                  *)
ActiveShown == active_block_of(last_update.data)

(* The id of that block is not the one the monitor was tracking.           *)
IdDiffers ==
    \/ last_update.before.current_session_id = None
    \/ json_index(ActiveShown[1], "id").t # "str"
    \/ json_index(ActiveShown[1], "id").s # last_update.before.current_session_id[1]

Appended == Len(session_monitor.session_history) - Len(last_update.before.session_history)

(* C17: a valid update appends exactly one entry to the session history    *)
(* when the active block's id differs from the tracked session id (or none *)
(* is tracked), and appends nothing when the id is unchanged or no block   *)
(* is active.                                                              *)
C17_AppendsOneIffActiveIdDiffers ==
    (last_update.called /\ last_update.is_valid) =>
        IF ActiveShown # None /\ IdDiffers
        THEN /\ Appended = 1
             /\ SubSeq(session_monitor.session_history, 1, Len(last_update.before.session_history)) = last_update.before.session_history
        ELSE session_monitor.session_history = last_update.before.session_history

(* The same for active blocks whose id is a string.                        *)
AppendsOneIffTextIdDiffers ==
    (last_update.called /\ last_update.is_valid /\ ActiveShown # None /\ json_index(ActiveShown[1], "id").t = "str") =>
        IF IdDiffers
        THEN session_monitor.session_history = Append(last_update.before.session_history, Last(session_monitor.session_history))
             /\ Last(session_monitor.session_history).id = json_index(ActiveShown[1], "id").s
        ELSE session_monitor.session_history = last_update.before.session_history

(* C19: an update whose data fails validation leaves the tracked session   *)
(* id and the session history unchanged.                                   *)
C19_InvalidUpdateChangesNothing ==
    (last_update.called /\ ~last_update.is_valid) =>
        /\ session_monitor.current_session_id = last_update.before.current_session_id
        /\ session_monitor.session_history = last_update.before.session_history

(* Rejected data showed an active block other than the tracked session.    *)
C19_Witness ==
    /\ last_update.called
    /\ ~last_update.is_valid
    /\ last_update.errors # <<>>
    /\ ActiveShown # None
    /\ last_update.before.current_session_id # None
    /\ last_update.before.current_session_id # Some(session_id_of(ActiveShown[1]))

----------------------------------------------------------------------------
(* Properties of the monitoring loop (SpecLoop, SpecLoopFair).             *)

(* C18: the session_count carried in a snapshot equals the number of       *)
(* distinct sessions (distinct ids of active blocks) observed since        *)
(* startup.                                                                *)
C18_SessionCountIsDistinctSessions ==
    pending # None => pending[1].session_count = Cardinality(observed)

(* A snapshot never counts fewer sessions than were observed.              *)
SessionCountAtLeastDistinctSessions ==
    pending # None => pending[1].session_count >= Cardinality(observed)

(* The task has left monitoring_loop or was cancelled.                     *)
Stopped == loop_pc \in {"exited", "aborted"}

(* C20: once the receiver is dropped the monitoring loop eventually exits, *)
(* and it does so at the next tick of the interval after a send in         *)
(* progress has returned: with the receiver dropped, a tick in the loop    *)
(* leads nowhere but out.                                                  *)
C20_ExitsOnceReceiverDropped ==
    /\ (rx = "dropped") ~> Stopped
    /\ [][(rx = "dropped" /\ loop_pc = "tick" /\ loop_pc' # "tick") => Stopped']_vars

(* The loop has left through its break, the receiver gone.                 *)
C20_Witness ==
    /\ rx = "dropped"
    /\ loop_pc = "exited"
    /\ fetch_count > 0

(* A send waits on a full buffer.                                          *)
SendWaitsOnFullBuffer ==
    /\ loop_pc = "send"
    /\ rx = "open"
    /\ buffered = channel_capacity

----------------------------------------------------------------------------
(* Further properties of the segmenter (Spec): order and membership.       *)

(* The next non-gap window after window i, if any.                         *)
NextReal(bs, i) == {j \in RealIndices(bs) : j > i /\ \A k \in RealIndices(bs) : k > i => j <= k}

(* C29: in the output the non-gap windows come in strictly increasing      *)
(* order of start, and each starts at or after the end of the non-gap      *)
(* window before it.                                                       *)
C29_NonGapWindowsOrderedAndDisjoint ==
    \A i \in RealIndices(AllBlocks) : \A j \in NextReal(AllBlocks, i) :
        /\ AllBlocks[i].start_time < AllBlocks[j].start_time
        /\ AllBlocks[i].end_time <= AllBlocks[j].start_time

(* C29 witness: an output in which a window starts at the very end of the  *)
(* window before it, and a gap window lies between two others.             *)
C29_Witness ==
    /\ pc = "done"
    /\ \E i \in RealIndices(blocks) : \E j \in NextReal(blocks, i) : blocks[j].start_time = blocks[i].end_time
    /\ \E i \in RealIndices(blocks) : \E j \in NextReal(blocks, i) : j > i + 1

(* The window that holds record number k.                                  *)
HolderOf(k) == CHOOSE i \in RealIndices(AllBlocks) : \E j \in Indices(AllBlocks[i].entries) : AllBlocks[i].entries[j] = entries[k]

(* C30: a record joins the window of the record before it if and only if   *)
(* its timestamp is strictly before that window's nominal end and it is    *)
(* less than 5 hours after that record; otherwise that window is closed    *)
(* and the record is the first of a new window.  Every record held by a    *)
(* window has start <= timestamp < end.                                    *)
C30_AppendedIffBeforeEndAndWithinFiveHours ==
    /\ \A k \in 1..(Len(entries) - 1) :
          LET h == HolderOf(k)
              joins == /\ entries[k + 1].timestamp < AllBlocks[h].end_time
                       /\ entries[k + 1].timestamp - entries[k].timestamp < FiveHours
          IN  IF joins
              THEN HolderOf(k + 1) = h
              ELSE /\ HolderOf(k + 1) > h
                   /\ AllBlocks[HolderOf(k + 1)].entries[1] = entries[k + 1]
                   /\ Last(AllBlocks[h].entries) = entries[k]
                   /\ AllBlocks[h].actual_end_time = Some(entries[k].timestamp)
    /\ \A i \in RealIndices(AllBlocks) : \A j \in Indices(AllBlocks[i].entries) :
          /\ AllBlocks[i].start_time <= AllBlocks[i].entries[j].timestamp
          /\ AllBlocks[i].entries[j].timestamp < AllBlocks[i].end_time

(* C30 witness: a record at the last tick before the nominal end was       *)
(* taken, and a record at the nominal end itself opened a new window.      *)
C30_Witness ==
    /\ Len(entries) = 3
    /\ HolderOf(2) = HolderOf(1)
    /\ entries[2].timestamp = AllBlocks[HolderOf(1)].end_time - 1
    /\ HolderOf(3) # HolderOf(2)
    /\ entries[3].timestamp = AllBlocks[HolderOf(2)].end_time


----------------------------------------------------------------------------
(* Single calls of the pure functions of monitor-core: the arguments are   *)
(* drawn at the start, one step makes the call.                            *)

(* Everything but the call's own variables and pc, at rest.                *)
EngineAtRest ==
    /\ entries = <<>>
    /\ blocks = <<>>
    /\ current_block = None
    /\ now = None
    /\ detections = <<>>
    /\ LoaderIdle
    /\ DataManagerIdle
    /\ SessionMonitorIdle
    /\ OrchestratorIdle
    /\ NotificationManagerIdle

(* A token source at place p (1 message.usage, 2 usage, 3 the record):     *)
(* lacking, no object, or an object whose counts tell the place apart.     *)
SourceForms == {"absent", "number", "cache only", "input", "output alias", "zero then alias"}

SourceFields(form, p) ==
    CASE form = "cache only" ->
           [k \in {"input_tokens", "output_tokens", "cache_creation_input_tokens", "cache_read_input_tokens"} |->
              CASE k = "input_tokens" -> JNum(0)
                [] k = "output_tokens" -> JNum(0)
                [] k = "cache_creation_input_tokens" -> JNum(10 * p + 3)
                [] OTHER -> JNum(10 * p + 4)]
      [] form = "input" ->
           [k \in {"input_tokens", "cache_creation_tokens", "cacheReadInputTokens"} |->
              CASE k = "input_tokens" -> JNum(10 * p + 1)
                [] k = "cache_creation_tokens" -> JNum(10 * p + 3)
                [] OTHER -> JNum(10 * p + 4)]
      [] form = "output alias" ->
           [k \in {"completion_tokens", "cache_read_tokens"} |->
              IF k = "completion_tokens" THEN JNum(10 * p + 2) ELSE JNum(10 * p + 4)]
      [] form = "zero then alias" ->
           [k \in {"input_tokens", "inputTokens"} |->
              IF k = "input_tokens" THEN JNum(0) ELSE JNum(10 * p + 1)]
      [] OTHER -> <<>>

NestedSource(form, p) == IF form = "number" THEN JNum(7) ELSE JObj(SourceFields(form, p))

TypeForms == {"assistant", "user", "absent", "number"}

TypeField(tf) ==
    CASE tf = "assistant" -> [k \in {"type"} |-> JStr(s_assistant)]
      [] tf = "user" -> [k \in {"type"} |-> JStr(<<"u", "s", "e", "r">>)]
      [] tf = "number" -> [k \in {"type"} |-> JNum(1)]
      [] OTHER -> <<>>

ExtractRecord(tf, mf, uf, rf) ==
    JObj(Merge(TypeField(tf),
         Merge(IF mf = "absent" THEN <<>> ELSE [k \in {"message"} |-> JObj([j \in {"usage"} |-> NestedSource(mf, 1)])],
         Merge(IF uf = "absent" THEN <<>> ELSE [k \in {"usage"} |-> NestedSource(uf, 2)],
                SourceFields(rf, 3)))))

ExtractSamples == {ExtractRecord(tf, mf, uf, rf) : tf \in TypeForms, mf \in SourceForms, uf \in SourceForms, rf \in SourceForms \ {"number"}}

InitExtract ==
    /\ EngineAtRest
    /\ pc = "call"
    /\ call_args \in {Some(d) : d \in ExtractSamples}
    /\ call_result = None

Extract ==
    /\ pc = "call"
    /\ call_result' = Some(TokenExtractor_extract(call_args[1]))
    /\ pc' = "returned"
    /\ UNCHANGED <<segVars, loadVars, rtVars, nmVars, call_args>>

NextExtract == Extract

SpecExtract == InitExtract /\ [][NextExtract]_vars


----------------------------------------------------------------------------
(* Properties of TokenExtractor::extract (SpecExtract).                    *)

input_aliases == <<"input_tokens", "inputTokens", "prompt_tokens">>
output_aliases == <<"output_tokens", "outputTokens", "completion_tokens">>
cache_creation_aliases == <<"cache_creation_tokens", "cache_creation_input_tokens", "cacheCreationInputTokens">>
cache_read_aliases == <<"cache_read_input_tokens", "cache_read_tokens", "cacheReadInputTokens">>

(* The four counts a source carries, each under the first of its aliases   *)
(* that holds a count.                                                     *)
CountsOf(source) ==
    [ input_tokens |-> find_u64(source, input_aliases),
      output_tokens |-> find_u64(source, output_aliases),
      cache_creation_input_tokens |-> find_u64(source, cache_creation_aliases),
      cache_read_input_tokens |-> find_u64(source, cache_read_aliases) ]

FourCounts(tokens) == [k \in DOMAIN CountsOf(JNull) |-> tokens[k]]

IsAssistant(data) == json_get(data, "type") = Some(JStr(s_assistant))

MessageUsageOf(data) == and_then_get(json_get(data, "message"), "usage")

(* The sources in the order the record's type asks for.                    *)
ProbeOrder(data) ==
    IF IsAssistant(data)
    THEN <<MessageUsageOf(data), json_get(data, "usage"), Some(data)>>
    ELSE <<json_get(data, "usage"), MessageUsageOf(data), Some(data)>>

Yields(source_opt) ==
    /\ source_opt # None
    /\ CountsOf(source_opt[1]).input_tokens > 0 \/ CountsOf(source_opt[1]).output_tokens > 0

CacheOnly(source_opt) ==
    /\ source_opt # None
    /\ ~Yields(source_opt)
    /\ CountsOf(source_opt[1]).cache_creation_input_tokens > 0 \/ CountsOf(source_opt[1]).cache_read_input_tokens > 0

Yielding(data) == {i \in DOMAIN ProbeOrder(data) : Yields(ProbeOrder(data)[i])}

FirstYielding(data) == CHOOSE i \in Yielding(data) : \A j \in Yielding(data) : i <= j

C26_ZeroSourcesAreSkipped ==
    pc = "returned" =>
        /\ \A i \in DOMAIN ProbeOrder(call_args[1]) :
              CacheOnly(ProbeOrder(call_args[1])[i]) =>
                  FourCounts(call_result[1]) # CountsOf(ProbeOrder(call_args[1])[i][1])
        /\ Yielding(call_args[1]) = {} => call_result[1] = ExtractedTokens_default

(* Every place holds cache counts and no input or output count: all zeros  *)
(* come back.                                                              *)
C26_Witness ==
    /\ pc = "returned"
    /\ \A i \in DOMAIN ProbeOrder(call_args[1]) : CacheOnly(ProbeOrder(call_args[1])[i])
    /\ call_result[1] = ExtractedTokens_default


----------------------------------------------------------------------------
(* normalize_model_name, called once on a sample name.                     *)

NamePrefixes == {<<>>, s_claude_dash, <<"C", "l", "a", "u", "d", "e", "-", "3", "-">>}

NameFamilies == {s_opus, <<"O", "p", "u", "s">>, s_sonnet, s_haiku, <<"g", "p", "t">>}

NameSuffixes ==
    { <<>>,
      <<"-", "4", "-", "1">>,
      <<"4", "-", "1">>,
      <<"-", "2", "0", "2", "4", "-", "0", "2">>,
      <<"-", "2", "0", "2", "4", "0", "2", "2", "9">>,
      <<"-", "3", ".", "5">>,
      <<"-", "3", "-", "5">> }

NameSamples == {<<>>} \cup {p \o f \o x : p \in NamePrefixes, f \in NameFamilies, x \in NameSuffixes}

InitNormalize ==
    /\ EngineAtRest
    /\ pc = "call"
    /\ call_args \in {Some(m) : m \in NameSamples}
    /\ call_result = None

Normalize ==
    /\ pc = "call"
    /\ call_result' = Some(normalize_model_name(call_args[1]))
    /\ pc' = "returned"
    /\ UNCHANGED <<segVars, loadVars, rtVars, nmVars, call_args>>

NextNormalize == Normalize

SpecNormalize == InitNormalize /\ [][NextNormalize]_vars

(* C27: a name whose lower-case form contains "opus" and none of           *)
(* "opus-4-", "sonnet-4-", "haiku-4-" normalizes to "claude-3-opus".       *)
C27_OpusNormalizesToClaude3Opus ==
    ( /\ pc = "returned"
      /\ contains(to_lowercase(call_args[1]), s_opus)
      /\ ~contains(to_lowercase(call_args[1]), s_opus \o s_dash4dash)
      /\ ~contains(to_lowercase(call_args[1]), s_sonnet \o s_dash4dash)
      /\ ~contains(to_lowercase(call_args[1]), s_haiku \o s_dash4dash) )
    => call_result[1] = s_claude_3 \o s_opus


----------------------------------------------------------------------------
(* monitor-core/src/calculations.rs: BurnRateCalculator::calculate_burn_rate *)
(* on a SessionBlock, called once (SpecBurn).                              *)

(* Sample blocks: they start at second 0 and end, nominally, five hours    *)
(* later.                                                                  *)
BurnActualEnds == {None, Some(0), Some(30), Some(59), Some(60), Some(61), Some(3600)}

BurnTokenCounts == {[TokenCounts_default EXCEPT !.input_tokens = i, !.output_tokens = o] : i \in {0, 1, 6000}, o \in {0, 5}}

BurnBlocks ==
    { [ start_time |-> 0,
        end_time |-> session_duration_hours * 60 * seconds_per_minute,
        actual_end_time |-> a,
        is_active |-> act,
        token_counts |-> tc,
        cost_usd |-> c ] : a \in BurnActualEnds, act \in BOOLEAN, tc \in BurnTokenCounts, c \in {0, 6000} }

InitBurn ==
    /\ EngineAtRest
    /\ pc = "call"
    /\ call_args \in {Some(b) : b \in BurnBlocks}
    /\ call_result = None

CalculateBurnRate ==
    /\ pc = "call"
    /\ call_result' = Some(calculate_burn_rate(call_args[1]))
    /\ pc' = "returned"
    /\ UNCHANGED <<segVars, loadVars, rtVars, nmVars, call_args>>

NextBurn == CalculateBurnRate

SpecBurn == InitBurn /\ [][NextBurn]_vars

(* The time from the block's start to its actual end, or to its nominal    *)
(* end when it has no actual end, in seconds.                              *)
WindowSeconds(block) ==
    (IF block.actual_end_time # None THEN block.actual_end_time[1] ELSE block.end_time) - block.start_time

(* C22: calculate_burn_rate returns none whenever the window is inactive,  *)
(* or its duration is under one minute, or its total token count is zero.  *)
C22_NoneWhenInactiveShortOrEmpty ==
    ( /\ pc = "returned"
      /\ \/ ~call_args[1].is_active
         \/ WindowSeconds(call_args[1]) < seconds_per_minute
         \/ total_tokens(call_args[1]) = 0 )
    => call_result[1] = None


----------------------------------------------------------------------------
(* monitor-core/src/p90.rs.  Token counts are whole numbers; a fraction    *)
(* (limit_threshold, the percentile asked for, a percentile's value) is    *)
(* kept in hundredths.                                                     *)

Hundred == 100

(* Vec::sort_by on the sample.                                             *)
RECURSIVE insert_sorted(_, _)
insert_sorted(v, x) ==
    IF v = <<>> THEN <<x>>
    ELSE IF x <= Head(v) THEN <<x>> \o v
    ELSE <<Head(v)>> \o insert_sorted(Tail(v), x)

RECURSIVE sort_sample(_)
sort_sample(v) == IF v = <<>> THEN <<>> ELSE insert_sorted(sort_sample(Tail(v)), Head(v))

(* percentile(sorted_data, p), in hundredths; sorted_data is indexed from  *)
(* 0 in the source and from 1 here.                                        *)
percentile(sorted_data, p) ==
    IF sorted_data = <<>> THEN 0
    ELSE IF Len(sorted_data) = 1 THEN sorted_data[1] * Hundred
    ELSE LET rank == p * (Len(sorted_data) - 1)
             lo == rank \div Hundred
             hi == IF rank % Hundred = 0 THEN lo ELSE lo + 1
             frac == rank - lo * Hundred
         IN  IF lo = hi THEN sorted_data[lo + 1] * Hundred
             ELSE sorted_data[lo + 1] * Hundred + frac * (sorted_data[hi + 1] - sorted_data[lo + 1])

(* f64::round followed by `as u64`, on a value that is not negative.       *)
round_to_u64(x) == (x + Hundred \div 2) \div Hundred

(* Option<&Value>::and_then(|v| v.as_bool()).unwrap_or(false).             *)
as_bool_or_false(opt) == IF opt # None /\ opt[1].t = "bool" THEN opt[1].b ELSE FALSE

RECURSIVE completed_of(_)
completed_of(bs) ==
    IF bs = <<>> THEN <<>>
    ELSE LET b == Head(bs)
             is_gap == as_bool_or_false(json_get(b, "isGap"))
             is_active == as_bool_or_false(json_get(b, "isActive"))
             tokens == and_then_as_u64(json_get(b, "totalTokens"))
         IN  (IF ~is_gap /\ ~is_active /\ tokens # None THEN <<tokens[1]>> ELSE <<>>) \o completed_of(Tail(bs))

(* `tokens >= (limit as f64 * config.limit_threshold) as u64` for any of   *)
(* the common limits.                                                      *)
hits_limit(tokens, config) ==
    \E i \in DOMAIN config.common_limits :
        tokens >= (config.common_limits[i] * config.limit_threshold) \div Hundred

RECURSIVE limit_hitting_of(_, _)
limit_hitting_of(completed, config) ==
    IF completed = <<>> THEN <<>>
    ELSE (IF hits_limit(Head(completed), config) THEN <<Head(completed)>> ELSE <<>>)
             \o limit_hitting_of(Tail(completed), config)

max_u64(a, b) == IF a >= b THEN a ELSE b

(* Fault variant: the percentile is returned without the floor.            *)
calculate_p90_from_blocks_unfloored(bs, config) ==
    LET completed == completed_of(bs)
        limit_hitting == limit_hitting_of(completed, config)
        sample == IF limit_hitting # <<>> THEN sort_sample(limit_hitting) ELSE sort_sample(completed)
    IN  round_to_u64(percentile(sample, 90))

calculate_p90_from_blocks(bs, config) ==
    LET completed == completed_of(bs)
        limit_hitting == limit_hitting_of(completed, config)
        sample == IF limit_hitting # <<>> THEN sort_sample(limit_hitting) ELSE sort_sample(completed)
    IN  IF completed = <<>> THEN config.default_min_limit
        ELSE max_u64(round_to_u64(percentile(sample, 90)), config.default_min_limit)

(* plans.rs: the defaults of P90Config.                                    *)
COMMON_TOKEN_LIMITS == <<19000, 88000, 220000, 880000>>
LIMIT_DETECTION_THRESHOLD == 95
DEFAULT_TOKEN_LIMIT == 19000

P90Config_default ==
    [common_limits |-> COMMON_TOKEN_LIMITS, limit_threshold |-> LIMIT_DETECTION_THRESHOLD, default_min_limit |-> DEFAULT_TOKEN_LIMIT]

(* Bound: the number of blocks of a sample list (the list of Scenario E    *)
(* apart).                                                                 *)
MaxP90Blocks == 3

P90Configs ==
    { P90Config_default,
      [common_limits |-> <<21>>, limit_threshold |-> 50, default_min_limit |-> 0],
      [common_limits |-> <<20, 40>>, limit_threshold |-> 50, default_min_limit |-> 5] }

P90TokenSamples == {2, 6, 10, 18100, 84000}

P90Block(kind, tokens) ==
    CASE kind = "gap" -> JObj([isGap |-> JBool(TRUE), isActive |-> JBool(FALSE), totalTokens |-> JNum(tokens)])
      [] kind = "active" -> JObj([isGap |-> JBool(FALSE), isActive |-> JBool(TRUE), totalTokens |-> JNum(tokens)])
      [] kind = "completed" -> JObj([isGap |-> JBool(FALSE), isActive |-> JBool(FALSE), totalTokens |-> JNum(tokens)])
      [] OTHER -> JObj([totalTokens |-> JNum(tokens)])

P90Blocks == {P90Block(k, t) : k \in {"gap", "active", "completed", "bare"}, t \in P90TokenSamples}

(* Ten completed windows of 84,000 tokens each.                            *)
TenWindows == [i \in 1..10 |-> P90Block("completed", 84000)]

P90BlockLists == {TenWindows} \cup UNION {[1..n -> P90Blocks] : n \in 0..MaxP90Blocks}

InitP90 ==
    /\ EngineAtRest
    /\ pc = "call"
    /\ call_args \in {Some([blocks |-> bs, config |-> c]) : bs \in P90BlockLists, c \in P90Configs}
    /\ call_result = None

CalculateP90 ==
    /\ pc = "call"
    /\ call_result' = Some(calculate_p90_from_blocks(call_args[1].blocks, call_args[1].config))
    /\ pc' = "returned"
    /\ UNCHANGED <<segVars, loadVars, rtVars, nmVars, call_args>>

NextP90 == CalculateP90

SpecP90 == InitP90 /\ [][NextP90]_vars


----------------------------------------------------------------------------
(* Properties of calculate_p90_from_blocks (SpecP90).                      *)

IsTrue(block, key) == json_get(block, key) = Some(JBool(TRUE))

RECURSIVE RemainingTokens(_)
RemainingTokens(bs) ==
    IF bs = <<>> THEN <<>>
    ELSE (IF ~IsTrue(Head(bs), "isGap") /\ ~IsTrue(Head(bs), "isActive") THEN <<json_index(Head(bs), "totalTokens").n>> ELSE <<>>)
             \o RemainingTokens(Tail(bs))

(* tokens >= threshold x step for some known step.                         *)
ReachesStep(tokens, config) ==
    \E i \in DOMAIN config.common_limits : tokens * Hundred >= config.limit_threshold * config.common_limits[i]

RECURSIVE Keep(_, _, _)
Keep(tokens, config, reaches) ==
    IF tokens = <<>> THEN <<>>
    ELSE (IF reaches[Head(tokens)] THEN <<Head(tokens)>> ELSE <<>>) \o Keep(Tail(tokens), config, reaches)

SampleBy(bs, config, reaches) ==
    LET kept == Keep(RemainingTokens(bs), config, reaches)
    IN  IF kept # <<>> THEN kept ELSE RemainingTokens(bs)

(* The sample as stated: the remaining windows at or above threshold x     *)
(* step, or all remaining windows when there is none.                      *)
StatedSample(bs, config) == SampleBy(bs, config, [t \in P90TokenSamples |-> ReachesStep(t, config)])

(* The sample as drawn: the same with threshold x step cut to a whole      *)
(* number.                                                                 *)
DrawnSample(bs, config) == SampleBy(bs, config, [t \in P90TokenSamples |-> hits_limit(t, config)])

(* The 90th percentile by linear interpolation, in hundredths:             *)
(* rank = 90/100 x (n - 1), between the elements ranked floor(rank) and    *)
(* ceiling(rank) of the ascending sample.                                  *)
P90Of(sample) ==
    LET sorted == sort_sample(sample)
        n == Len(sorted)
        below == (9 * (n - 1)) \div 10
        tenths == (9 * (n - 1)) % 10
    IN  IF tenths = 0 THEN sorted[below + 1] * Hundred
        ELSE sorted[below + 1] * Hundred + 10 * tenths * (sorted[below + 2] - sorted[below + 1])

NearestWhole(hundredths) == IF hundredths % Hundred >= Hundred \div 2 THEN hundredths \div Hundred + 1 ELSE hundredths \div Hundred

EstimateFrom(sample, config) ==
    IF sample = <<>> THEN config.default_min_limit
    ELSE max_u64(NearestWhole(P90Of(sample)), config.default_min_limit)

(* C23: gap windows and active windows never influence the estimate; among *)
(* the remaining windows the sample is those with a token count >=         *)
(* threshold x some known step if there is one, otherwise all of them.     *)
C23_SampleIsLimitHittingElseAll ==
    pc = "returned" =>
        call_result[1] = EstimateFrom(StatedSample(call_args[1].blocks, call_args[1].config), call_args[1].config)

(* C24 as stated: the estimate is max(90th percentile of the sample,       *)
(* floor).                                                                 *)
C24_EstimateIsPercentileOrFloor ==
    (pc = "returned" /\ RemainingTokens(call_args[1].blocks) # <<>>) =>
        call_result[1] * Hundred =
            max_u64(P90Of(DrawnSample(call_args[1].blocks, call_args[1].config)), call_args[1].config.default_min_limit * Hundred)

(* C24, amended: the estimate is max(90th percentile of the sample rounded *)
(* to the nearest whole number, floor); it is never below the floor, and   *)
(* it is the floor when no window is both non-gap and non-active.          *)
C24_EstimateIsRoundedPercentileOrFloor ==
    pc = "returned" =>
        /\ call_result[1] >= call_args[1].config.default_min_limit
        /\ RemainingTokens(call_args[1].blocks) = <<>> => call_result[1] = call_args[1].config.default_min_limit
        /\ call_result[1] = EstimateFrom(DrawnSample(call_args[1].blocks, call_args[1].config), call_args[1].config)

(* A sample whose percentile falls between two whole numbers, above the    *)
(* floor.                                                                  *)
C24_Witness ==
    /\ pc = "returned"
    /\ RemainingTokens(call_args[1].blocks) # <<>>
    /\ P90Of(DrawnSample(call_args[1].blocks, call_args[1].config)) % Hundred # 0
    /\ P90Of(DrawnSample(call_args[1].blocks, call_args[1].config)) > call_args[1].config.default_min_limit * Hundred
    /\ call_result[1] = NearestWhole(P90Of(DrawnSample(call_args[1].blocks, call_args[1].config)))


----------------------------------------------------------------------------
(* Further properties of the loader (SpecLoad): what a load survives.      *)

RECURSIVE WellFormedLines(_)
WellFormedLines(lines) ==
    IF lines = <<>> THEN <<>>
    ELSE (IF Head(lines).kind # "malformed" THEN <<Head(lines)>> ELSE <<>>) \o WellFormedLines(Tail(lines))

(* The files read, without those that could not be opened and without the  *)
(* malformed lines of the others.                                          *)
RECURSIVE Cleaned(_)
Cleaned(fs) ==
    IF fs = <<>> THEN <<>>
    ELSE (IF Head(fs).openable THEN <<[Head(fs) EXCEPT !.lines = WellFormedLines(@)]>> ELSE <<>>) \o Cleaned(Tail(fs))

RawRecords(opt) == IF opt = None THEN <<>> ELSE opt[1]

(* C28: a malformed line or a file that cannot be opened never aborts a    *)
(* load: the records returned, typed and raw, are those of a load of the   *)
(* same files without the unopenable files and the malformed lines; with   *)
(* no file at all the load returns no record.                              *)
C28_LoadSurvivesBadLinesAndFiles ==
    Returned =>
        LET clean == load_usage_entries(Cleaned(files), cutoff_time, CostMode_Auto, include_raw)
        IN  /\ all_entries = clean.entries
            /\ RawRecords(raw_entries) = RawRecords(clean.raw_entries)
            /\ files = <<>> => (all_entries = <<>> /\ raw_entries = None)

(* A load of a file that cannot be opened and of a file whose malformed    *)
(* line comes before a line that gives a record.                           *)
C28_Witness ==
    /\ Returned
    /\ Len(files) = 2
    /\ ~files[1].openable
    /\ files[2].openable
    /\ Len(files[2].lines) = 2
    /\ files[2].lines[1].kind = "malformed"
    /\ files[2].lines[2].kind = "json"
    /\ Len(all_entries) = 1


----------------------------------------------------------------------------
(* monitor-core/src/notifications.rs: one NotificationManager and the wall *)
(* clock.  Instants and cooldowns are counted in ticks, a whole number of  *)
(* which makes a second; cooldown_hours is the cooldown in ticks.          *)

TicksPerSecond == 2
MaxNow == 4
MaxCooldown == 3

KEY_SWITCH_TO_CUSTOM == "switch_to_custom"
KEY_EXCEED_MAX_LIMIT == "exceed_max_limit"
KEY_TOKENS_WILL_RUN_OUT == "tokens_will_run_out"

NotificationState_default == [triggered |-> FALSE, timestamp |-> None]

default_states == [k \in {KEY_SWITCH_TO_CUSTOM, KEY_EXCEED_MAX_LIMIT, KEY_TOKENS_WILL_RUN_OUT} |-> NotificationState_default]

(* HashMap::insert.                                                        *)
map_insert(map, key, value) == [k \in (DOMAIN map) \cup {key} |-> IF k = key THEN value ELSE map[k]]

(* Duration::num_seconds: whole seconds, the rest cut off.                 *)
num_seconds(duration) == duration \div TicksPerSecond

(* should_notify at instant t: the states it leaves (the entry of a new    *)
(* key is inserted) and its answer.                                        *)
should_notify(self, key, cooldown_hours, t) ==
    LET with_entry == IF key \in DOMAIN self THEN self ELSE map_insert(self, key, NotificationState_default)
        state == with_entry[key]
    IN  [ self |-> with_entry,
          result |-> IF ~state.triggered THEN TRUE
                     ELSE IF state.timestamp = None THEN TRUE
                     ELSE num_seconds(t - state.timestamp[1]) * TicksPerSecond >= cooldown_hours ]

(* mark_notified at instant t, before save_states.                         *)
mark_notified(self, key, t) == map_insert(self, key, [triggered |-> TRUE, timestamp |-> Some(t)])

NotifyKeys == {KEY_EXCEED_MAX_LIMIT, "custom_key"}

InitNotify ==
    /\ entries = <<>>
    /\ blocks = <<>>
    /\ current_block = None
    /\ now = None
    /\ detections = <<>>
    /\ pc = "notifications"
    /\ LoaderIdle
    /\ DataManagerIdle
    /\ SessionMonitorIdle
    /\ OrchestratorIdle
    /\ CallIdle
    /\ states = default_states
    /\ notification_file = None
    /\ utc_now = 0
    /\ asked = None

ShouldNotify ==
    /\ \E key \in NotifyKeys, cooldown_hours \in 0..MaxCooldown :
          LET r == should_notify(states, key, cooldown_hours, utc_now)
          IN  /\ states' = r.self
              /\ asked' = Some([ key |-> key, cooldown_hours |-> cooldown_hours, at |-> utc_now,
                                 marked |-> IF key \in DOMAIN states /\ states[key].triggered THEN states[key].timestamp ELSE None,
                                 result |-> r.result ])
    /\ UNCHANGED <<segVars, loadVars, rtVars, fnVars, notification_file, utc_now, pc>>

(* mark_notified with its save_states, whose write may fail.               *)
MarkNotified ==
    /\ \E key \in NotifyKeys, written \in BOOLEAN :
          /\ states' = mark_notified(states, key, utc_now)
          /\ notification_file' = IF written THEN Some(states') ELSE notification_file
    /\ UNCHANGED <<segVars, loadVars, rtVars, fnVars, utc_now, asked, pc>>

(* The wall clock moves on.                                                *)
ClockTick ==
    /\ utc_now < MaxNow
    /\ utc_now' = utc_now + 1
    /\ UNCHANGED <<segVars, loadVars, rtVars, fnVars, states, notification_file, asked, pc>>

NextNotify == ShouldNotify \/ MarkNotified \/ ClockTick

SpecNotify == InitNotify /\ [][NextNotify]_vars

(* C21: after mark_notified(key) at instant t and until the next           *)
(* mark_notified of that key, should_notify(key, c) answers false at every *)
(* instant before t + c and true at every instant at or after t + c.       *)
C21_FiresExactlyFromCooldownOn ==
    (asked # None /\ asked[1].marked # None) =>
        (asked[1].result <=> asked[1].at >= asked[1].marked[1] + asked[1].cooldown_hours)


----------------------------------------------------------------------------
(* Further properties of the segmenter (Spec): the active window.          *)

ActiveIndices(bs) == {i \in Indices(bs) : bs[i].is_active}

NoRecordAfterNow == now # None /\ \A k \in Indices(entries) : entries[k].timestamp <= now[1]

(* C31: if every record's timestamp is at or before `now`, the window list *)
(* holds at most one active window, and an active window is the last       *)
(* element of the list.                                                    *)
C31_AtMostOneActiveAndItIsLast ==
    (pc = "done" /\ NoRecordAfterNow) =>
        /\ Cardinality(ActiveIndices(blocks)) <= 1
        /\ \A i \in ActiveIndices(blocks) : i = Len(blocks)

(* Two windows and a gap window, the last window of the list active.       *)
C31_Witness ==
    /\ pc = "done"
    /\ NoRecordAfterNow
    /\ Len(blocks) = 3
    /\ GapIndices(blocks) # {}
    /\ ActiveIndices(blocks) = {3}


----------------------------------------------------------------------------
(* Further properties of the limit assignment (SpecLimits).                *)

(* The windows detection number j is attached to.                          *)
AttachedTo(j) == {i \in Indices(blocks) : MessagesOf(blocks[i], detections[j]) # {}}

(* C32: a limit signal is attached to at most two windows, and to two only *)
(* when its timestamp is the end of one non-gap window and the start of    *)
(* the next non-gap window.                                                *)
C32_AttachedToAtMostTwoWindows ==
    pc = "limits" =>
        \A j \in Indices(detections) :
            /\ Cardinality(AttachedTo(j)) <= 2
            /\ Cardinality(AttachedTo(j)) = 2 =>
                  \E i \in AttachedTo(j) : \E k \in AttachedTo(j) \cap NextReal(blocks, i) :
                      /\ ~blocks[i].is_gap
                      /\ blocks[i].end_time = detections[j].timestamp
                      /\ blocks[k].start_time = detections[j].timestamp

(* Three non-gap windows and a signal at the boundary of the first two,    *)
(* attached to both and not to the third.                                  *)
C32_Witness ==
    /\ pc = "limits"
    /\ Cardinality(RealIndices(blocks)) = 3
    /\ \E j \in Indices(detections) : Cardinality(AttachedTo(j)) = 2


----------------------------------------------------------------------------
(* Further properties of the monitoring loop (SpecLoop).                   *)

Sending == loop_pc \in {"initial send", "send"}

(* C33: a consumer that stops receiving never stalls the loop: however     *)
(* many snapshots lie unread in the channel, a send of the loop to the     *)
(* open channel finds room and returns.                                    *)
C33_UnreadSnapshotsNeverStallTheLoop ==
    (Sending /\ rx = "open") => buffered < channel_capacity


(* The analysis a snapshot waiting to be sent carries was run in the       *)
(* cycle that built the snapshot.                                          *)
RunInThisCycle ==
    /\ last_call.op = "get_data"
    /\ last_call.runs >= 1
    /\ pending # None
    /\ pending[1].analysis.run = fetch_count

----------------------------------------------------------------------------
(* The retry loop of fetch_with_retry, one attempt per step (SpecRetry).   *)
(* call_args holds the outcome of each analysis run and the number of runs *)
(* made before the call; call_result holds the locals of the loop: the     *)
(* next `attempt`, `last_err`, the sleeps made so far in milliseconds (0   *)
(* for an attempt that does not sleep) and, once the function has          *)
(* returned, its value in `ret`.                                           *)

backoff_step_ms == 100

retry_delay_ms_constant(attempt) == backoff_step_ms

retry_delay_ms(attempt) == IF attempt > 0 THEN attempt * backoff_step_ms ELSE 0

RetryAnalyses == {<<>>} \cup {bs \in LoopAnalyses : Len(bs) = 1}

RetryOutcome == {[ok |-> FALSE]} \cup {[ok |-> TRUE, blocks |-> bs] : bs \in RetryAnalyses}

RetryCalls ==
    {<<outcomes, n>> : outcomes \in [1..MAX_RETRY_ATTEMPTS -> RetryOutcome],
                       n \in 0..(MaxFetches - MAX_RETRY_ATTEMPTS)}

InitRetry ==
    /\ EngineAtRest
    /\ pc = "retry"
    /\ call_args \in RetryCalls
    /\ call_result = Some([attempt |-> 0, last_err |-> "", slept |-> <<>>, ret |-> None])

(* One iteration of `for attempt in 0..MAX_RETRY_ATTEMPTS`.                *)
RetryAttempt ==
    /\ pc = "retry"
    /\ LET l == call_result[1]
           r == fetch_fresh(call_args[2] + l.attempt + 1, call_args[1][l.attempt + 1])
           slept == Append(l.slept, retry_delay_ms(l.attempt))
       IN  /\ l.attempt < MAX_RETRY_ATTEMPTS
           /\ IF r.ok
              THEN /\ call_result' = Some([l EXCEPT !.slept = slept, !.ret = Some(r)])
                   /\ pc' = "returned"
              ELSE /\ call_result' = Some([l EXCEPT !.slept = slept,
                                                    !.last_err = r.v,
                                                    !.attempt = l.attempt + 1])
                   /\ pc' = "retry"
    /\ UNCHANGED <<segVars, loadVars, rtVars, nmVars, call_args>>

(* The loop is over: Err(last_err).                                        *)
RetryExhausted ==
    /\ pc = "retry"
    /\ LET l == call_result[1]
       IN  /\ l.attempt >= MAX_RETRY_ATTEMPTS
           /\ call_result' = Some([l EXCEPT !.ret = Some(Err(l.last_err))])
    /\ pc' = "returned"
    /\ UNCHANGED <<segVars, loadVars, rtVars, nmVars, call_args>>

NextRetry == RetryAttempt \/ RetryExhausted

SpecRetry == InitRetry /\ [][NextRetry]_vars

(* fetch_with_retry is synchronous code: thread::sleep and analyze_usage   *)
(* return, and the loop goes on to its next statement.                     *)
SpecRetryFair == SpecRetry /\ WF_vars(NextRetry)

Attempts == Len(call_result[1].slept)

Succeeding == {i \in 1..MAX_RETRY_ATTEMPTS : call_args[1][i].ok}

FirstSuccess == CHOOSE i \in Succeeding : \A k \in Succeeding : i <= k

RetryInvariant ==
    pc \in {"retry", "returned"} =>
        LET l == call_result[1]
        IN  /\ Attempts <= 3
            /\ \A i \in 1..Attempts : ~call_args[1][i].ok \/ (i = Attempts /\ l.ret # None)
            /\ \A i \in 1..Attempts : l.slept[i] = (i - 1) * 100
            /\ \A i \in 1..Attempts : \A k \in 1..Attempts : i < k => l.slept[i] < l.slept[k]
            /\ pc = "returned" =>
                  /\ l.ret # None
                  /\ l.ret[1] = fetch_with_retry(call_args[1], call_args[2]).res
                  /\ Attempts = fetch_with_retry(call_args[1], call_args[2]).runs
                  /\ l.ret[1].ok <=> Succeeding # {}
                  /\ Attempts = IF Succeeding # {} THEN FirstSuccess ELSE 3

(* C35: a refresh makes at most 3 analysis attempts, stops at the first    *)
(* success, sleeps 0 ms, 100 ms and 200 ms before its first, second and    *)
(* third attempt (strictly increasing), and always returns.                *)
C35_AtMostThreeAttemptsBackingOffAndReturning ==
    /\ []RetryInvariant
    /\ <>(pc = "returned")

(* A refresh whose first two runs fail and whose third succeeds.           *)
C35_Witness ==
    /\ pc = "returned"
    /\ call_result[1].slept = <<0, 100, 200>>
    /\ call_result[1].ret # None
    /\ call_result[1].ret[1].ok


----------------------------------------------------------------------------
(* Further properties of the load and the analysis after it (SpecLoad).    *)

InactiveWindowsCarryNeither ==
    /\ pc = "rated"
    /\ blocks # <<>>
    /\ \A i \in Indices(blocks) : ~blocks[i].is_active /\ blocks[i].burn_rate_snapshot = None


(* The line is dropped by map_to_usage_entry for its counts, or for its    *)
(* timestamp.                                                              *)
ZeroCounts(d) == TokenExtractor_extract(d).input_tokens = 0 /\ TokenExtractor_extract(d).output_tokens = 0

NoTimestamp(d) == TimeOf(d) = None

(* C37: a line dropped because its input and output counts are both zero   *)
(* or because it has no parseable timestamp does not register its dedup    *)
(* key: when every earlier line with the key of a line was dropped so, and  *)
(* the line itself has a timestamp within the cutoff and a nonzero count,  *)
(* the returned list holds that line's record, once.                       *)
C37_DroppedLineDoesNotRegisterItsKey ==
    Returned =>
        LET ds == ParsedLines(files)
        IN  \A i, k \in Indices(ds) :
                ( /\ i < k
                  /\ SameKey(ds[i], ds[k])
                  /\ OtherwiseRetained(ds[k])
                  /\ \A j \in 1..(k - 1) : SameKey(ds[j], ds[k]) => (ZeroCounts(ds[j]) \/ NoTimestamp(ds[j])) ) =>
                    /\ Cardinality(RecordsWithKeyOf(ds[k])) = 1
                    /\ \A m \in RecordsWithKeyOf(ds[k]) :
                          Some(all_entries[m]) = map_to_usage_entry(ds[k], CostMode_Auto)

(* A line with a timestamp and no counts, then a line with its key, a      *)
(* timestamp and counts, which is the one record returned.                 *)
C37_Witness ==
    /\ Returned
    /\ LET ds == ParsedLines(files)
       IN  /\ Len(ds) = 2
           /\ SameKey(ds[1], ds[2])
           /\ ZeroCounts(ds[1]) /\ ~NoTimestamp(ds[1]) /\ ~TooOld(ds[1])
           /\ OtherwiseRetained(ds[2])
           /\ Len(all_entries) = 1
           /\ Some(all_entries[1]) = map_to_usage_entry(ds[2], CostMode_Auto)

(* The same with a first line that has counts and no timestamp.            *)
DroppedForItsTimestampThenRetained ==
    /\ Returned
    /\ LET ds == ParsedLines(files)
       IN  /\ Len(ds) = 2
           /\ SameKey(ds[1], ds[2])
           /\ NoTimestamp(ds[1]) /\ ~ZeroCounts(ds[1])
           /\ OtherwiseRetained(ds[2])
           /\ Len(all_entries) = 1
           /\ Some(all_entries[1]) = map_to_usage_entry(ds[2], CostMode_Auto)

====
